---- MODULE Spec2Model ----
(***************************************************************************)
(* A model of the backtest-learn loop (src/src/backtest-learn-loop.ts) and *)
(* of the histogram prediction model it trains (src/unnamed/part_001,      *)
(* class TradingMLModel).                                                  *)
(*                                                                         *)
(* Numbers.  The code computes in IEEE doubles.  The model computes with   *)
(* exact rationals <<numerator, denominator>>; feature values are small    *)
(* integers.  Math.floor(n * 0.7) is the one place where the double        *)
(* rounding is modelled explicitly (SplitIdx).                             *)
(*                                                                         *)
(* Objects.  A TradeFeatures object is a reference: the arrays of the      *)
(* program hold references into a heap (TradeTable), so that pushing the   *)
(* same object twice into an array is visible as such.                     *)
(***************************************************************************)
EXTENDS Integers, Sequences, FiniteSets, TLC

VARIABLES
    pc,            \* position of run(): "init", "extracting", "extracted", ...
    started,       \* extractAllTrades: jobs whose async body has been invoked
    jobResult,     \* extractAllTrades: job -> settled value of its promise
    batchIdx,      \* extractAllTrades: the batch loop's i (0-based job offset)
    completed,     \* extractAllTrades: let completed
    failed,        \* extractAllTrades: let failed
    results,       \* extractAllTrades: const results: TradeFeatures[][]
    allTrades,     \* this.allTrades
    iterations,    \* this.iterations
    model,         \* this.model: [trained, features]
    lastAccuracy,  \* run: let lastAccuracy
    trainingData,  \* run: let trainingData
    iter,          \* run: the iteration loop's i
    trainSet,      \* run: const trainSet (also: the argument of the last train call)
    testSet,       \* run: const testSet
    testEval,      \* run: evaluateModel(testSet): [accuracy, errors]
    trainAccuracy, \* run: evaluateModel(trainSet).accuracy
    trainCalls,    \* history: number of train calls made on the model
    lastPredict,   \* history: the last predict call of a client since the last train
    prevTrainSet,  \* history: the argument of the train call before the last
    minScore,      \* CONFIG.minScore
    candles,       \* a candle array (loadData's result.candles)
    evalIndex,     \* extractTradesForSymbol: the evaluation loop's i
    extracted,     \* extractTradesForSymbol: const trades
    lastCall,      \* history: the last call made on the candles, and its result
    scored         \* history: the scoring of each evaluation point of the job so far

vars == <<pc, started, jobResult, batchIdx, completed, failed, results, allTrades,
          iterations, model, lastAccuracy, trainingData, iter, trainSet, testSet,
          testEval, trainAccuracy, trainCalls, lastPredict, prevTrainSet,
          minScore, candles, evalIndex, extracted, lastCall, scored>>

candleVars == <<minScore, candles, evalIndex, extracted, lastCall, scored>>
extractVars == <<started, jobResult, batchIdx, completed, failed, results>>
loopVars == <<iterations, lastAccuracy, trainingData, iter, trainSet, testSet,
              testEval, trainAccuracy>>

-----------------------------------------------------------------------------
(* Bounds of the model.  The configuration values are those of CONFIG, cut  *)
(* down: CONFIG.symbols has 10 entries, CONFIG.maxIterations defaults to 10 *)
(* and CONFIG.workers to the number of cores minus 2; all three can be set  *)
(* from the command line or by editing CONFIG.  MaxTrainCalls bounds the    *)
(* train calls of a client of the model (SpecModel).                        *)
NumSymbols == 2
workers == 2
maxIterations == 3
MaxTrainCalls == 2

(* Program constants. *)
DefaultMinScore == 25
MinCorpusSize == 200
MinCandles == 300
errorEmphasisMultiplier == 3
minSampleSize == 30
NumBins == 10

AllSymbols == <<"BTCUSDT", "ETHUSDT", "BNBUSDT", "ADAUSDT", "SOLUSDT",
                "XRPUSDT", "DOGEUSDT", "DOTUSDT", "AVAXUSDT", "LINKUSDT">>
symbols == SubSeq(AllSymbols, 1, NumSymbols)
timeframes == <<"1d", "1h", "5m">>

-----------------------------------------------------------------------------
(* Helpers on sequences and sets. *)

Range(s) == {s[k] : k \in DOMAIN s}

Min2(a, b) == IF a <= b THEN a ELSE b

SetMax(S) == CHOOSE x \in S : \A y \in S : y <= x
SetMin(S) == CHOOSE x \in S : \A y \in S : x <= y

(* The function f with every value computed once: TLC keeps [x \in S |-> e]  *)
(* unevaluated and would compute e again at each application f[x].          *)
Tabulate(f) == f @@ <<>>

(* The entries of s at the indexes idx, in order *)
SubSeqAt(s, idx) ==
    Tabulate([p \in 1..Cardinality(idx) |->
        s[CHOOSE k \in idx : Cardinality({g \in idx : g < k}) = p - 1]])

RECURSIVE SumSeq(_)
SumSeq(s) == IF s = <<>> THEN 0 ELSE Head(s) + SumSeq(Tail(s))

RECURSIVE FlattenSeq(_)
FlattenSeq(ss) == IF ss = <<>> THEN <<>> ELSE Head(ss) \o FlattenSeq(Tail(ss))

-----------------------------------------------------------------------------
(* Exact rationals <<n, d>> with d > 0, in lowest terms.  NaN is <<0, 0>>:  *)
(* every comparison with NaN is false, as in IEEE arithmetic.               *)

Abs(x) == IF x < 0 THEN -x ELSE x

RECURSIVE GCD(_, _)
GCD(a, b) == IF b = 0 THEN a ELSE GCD(b, a % b)

NaN == <<0, 0>>
IsNaN(r) == r[2] = 0

Rat(n, d) ==
    IF d = 0 THEN NaN
    ELSE LET s == IF d < 0 THEN -1 ELSE 1
             g == GCD(Abs(n), Abs(d))
         IN  <<(s * n) \div g, (s * d) \div g>>

RInt(n) == <<n, 1>>

RAdd(a, b) ==
    IF IsNaN(a) \/ IsNaN(b) THEN NaN
    ELSE LET g == GCD(a[2], b[2])
         IN  Rat(a[1] * (b[2] \div g) + b[1] * (a[2] \div g), (a[2] \div g) * b[2])

RNeg(a) == IF IsNaN(a) THEN NaN ELSE <<-a[1], a[2]>>
RSub(a, b) == RAdd(a, RNeg(b))

RMul(a, b) ==
    IF IsNaN(a) \/ IsNaN(b) THEN NaN
    ELSE LET g1 == GCD(Abs(a[1]), b[2])
             g2 == GCD(Abs(b[1]), a[2])
             h1 == IF g1 = 0 THEN 1 ELSE g1
             h2 == IF g2 = 0 THEN 1 ELSE g2
         IN  Rat((a[1] \div h1) * (b[1] \div h2), (a[2] \div h2) * (b[2] \div h1))

(* a / b.  x / 0 is NaN for x = 0; the code never divides a non-zero        *)
(* number by zero on a path the model takes.                                *)
RDiv(a, b) ==
    IF IsNaN(a) \/ IsNaN(b) \/ b[1] = 0 THEN NaN
    ELSE RMul(a, IF b[1] < 0 THEN <<-b[2], -b[1]>> ELSE <<b[2], b[1]>>)

(* Comparisons, by cross-multiplication (denominators are positive) *)
RLt(a, b) == ~IsNaN(a) /\ ~IsNaN(b) /\ a[1] * b[2] < b[1] * a[2]
RLe(a, b) == ~IsNaN(a) /\ ~IsNaN(b) /\ a[1] * b[2] <= b[1] * a[2]
RGt(a, b) == RLt(b, a)
RGe(a, b) == RLe(b, a)

(* Math.min(a, b) *)
RMin(a, b) == IF IsNaN(a) \/ IsNaN(b) THEN NaN ELSE IF RLe(a, b) THEN a ELSE b

RECURSIVE RSumSeq(_)
RSumSeq(s) == IF s = <<>> THEN RInt(0) ELSE RAdd(Head(s), RSumSeq(Tail(s)))

-----------------------------------------------------------------------------
(* The heap of TradeFeatures objects that extraction can produce.  Only the *)
(* fields that train, predict and the loop read are kept.  entry_time makes *)
(* every object distinct.  Numeric fields are integers (scaled units).      *)

(* The size of the heap: the objects the jobs produce (JobTrades) *)
NumObjects == 203

BaseTrade ==
    [entry_time |-> 0, direction |-> "long", outcome |-> "WIN",
     trend_strength |-> 0, ob_distance |-> 999, ob_size |-> 0, ob_age |-> 0,
     fvg_nearest_distance |-> 999, fvg_size |-> 0, fvg_count |-> 0,
     volatility |-> 1, rsi_value |-> 50, atr_value |-> 5,
     price_position |-> 0, distance_to_high |-> 0, distance_to_low |-> 0,
     volume_ratio |-> 1, confluence_score |-> 0, potential_rr |-> 2,
     trend_direction |-> "up", trend_bos_aligned |-> TRUE, ob_near |-> FALSE,
     ob_type |-> "none", fvg_near |-> FALSE, fvg_type |-> "mixed",
     ema_aligned |-> TRUE, ema_trend |-> "up", rsi_state |-> "neutral",
     liquidity_near |-> TRUE, mtf_aligned |-> TRUE, volume_spike |-> FALSE,
     session |-> "asian", days_since_loss |-> 0, streak_type |-> "none"]

(* Object id: its direction, RSI and outcome.  Objects 1..199 come from the *)
(* first job, 200 from the second, 201..203 from the third.  Longs mostly   *)
(* win and shorts mostly lose; the exceptions sit in two stretches.         *)
DirectionOf(id) == IF id % 2 = 1 THEN "long" ELSE "short"
RsiOf(id) == IF id % 25 = 0 THEN 70 ELSE IF id % 2 = 1 THEN 30 ELSE 50
OutcomeOf(id) ==
    IF id % 2 = 1
    THEN (IF id \in 141..170 /\ id % 6 = 1 THEN "LOSS" ELSE "WIN")
    ELSE (IF id \in 1..60 /\ id % 20 = 0 THEN "WIN" ELSE "LOSS")

TradeTable ==
    Tabulate([id \in 1..NumObjects |->
        [BaseTrade EXCEPT !.entry_time = id, !.direction = DirectionOf(id),
                          !.rsi_value = RsiOf(id), !.outcome = OutcomeOf(id)]])

Obj(id) == TradeTable[id]

-----------------------------------------------------------------------------
(* TradingMLModel.  this.features is a Map: a sequence of ModelFeature      *)
(* records in insertion order, at most one per name.                        *)

NumericFeatures ==
    <<"trend_strength", "ob_distance", "ob_size", "ob_age", "fvg_nearest_distance",
      "fvg_size", "fvg_count", "volatility", "rsi_value", "atr_value",
      "price_position", "distance_to_high", "distance_to_low", "volume_ratio",
      "confluence_score", "potential_rr">>

CategoricalFeatures ==
    <<"trend_direction", "trend_bos_aligned", "ob_near", "ob_type", "fvg_near",
      "fvg_type", "ema_aligned", "ema_trend", "rsi_state", "liquidity_near",
      "mtf_aligned", "direction", "volume_spike", "session", "days_since_loss",
      "streak_type">>

(* typeof value === 'number': the fields TradeFeatures declares as number *)
NumberFields == Range(NumericFeatures) \cup {"days_since_loss"}

(* Map.prototype.set, for a list of entries with distinct names, in order:  *)
(* an entry whose name the map holds replaces it in place, the others are   *)
(* appended.                                                                *)
MapSetAll(features, entries) ==
    LET Names(fs) == {fs[k].name : k \in DOMAIN fs}
        Entry(name) == entries[CHOOSE e \in DOMAIN entries : entries[e].name = name]
    IN  [k \in DOMAIN features |->
            IF features[k].name \in Names(entries)
            THEN Entry(features[k].name) ELSE features[k]]
        \o SelectSeq(entries, LAMBDA e : e.name \notin Names(features))

(* Map.prototype.clear *)
MapClear(features) == <<>>

(* Sum of f[x] over the x of a finite set S *)
RECURSIVE SumOver(_, _)
SumOver(S, f) ==
    IF S = {} THEN 0
    ELSE LET x == CHOOSE y \in S : TRUE IN f[x] + SumOver(S \ {x}, f)

(* binFeature: the ModelFeature it stores under featureName: numBins         *)
(* equal-width bins [binMin, binMax) over [minVal, maxVal].                 *)
(* trades.filter(...).length is computed from the number of trades (and of  *)
(* winning trades) per distinct value of the feature.                       *)
binFeature(featureName, trades, numBins) ==
    LET n == Len(trades)
        values == Tabulate([k \in 1..n |-> Obj(trades[k])[featureName]])
        isWin == Tabulate([k \in 1..n |-> Obj(trades[k]).outcome = "WIN"])
        distinct == Range(values)
        perValue == Tabulate([v \in distinct |->
                                 Cardinality({k \in 1..n : values[k] = v})])
        winsPerValue ==
            Tabulate([v \in distinct |->
                         Cardinality({k \in 1..n : values[k] = v /\ isWin[k]})])
        \* Math.min() of no arguments is Infinity, Math.max() is -Infinity:
        \* every bin bound is then NaN
        minVal == IF n = 0 THEN NaN ELSE RInt(SetMin(distinct))
        maxVal == IF n = 0 THEN NaN ELSE RInt(SetMax(distinct))
        binSize == RDiv(RSub(maxVal, minVal), RInt(numBins))
        Bin(i) ==
            LET binMin == RAdd(minVal, RMul(RInt(i), binSize))
                binMax == RAdd(minVal, RMul(RInt(i + 1), binSize))
                \* val >= binMin && val < binMax
                inBin == {v \in distinct : RGe(RInt(v), binMin) /\ RLt(RInt(v), binMax)}
                cnt == SumOver(inBin, perValue)
                wins == SumOver(inBin, winsPerValue)
            IN  [min |-> binMin, max |-> binMax, count |-> cnt, wins |-> wins,
                 winRate |-> IF cnt > 0 THEN Rat(wins, cnt) ELSE RInt(0),
                 hasValue |-> FALSE, value |-> 0]
    IN  [name |-> featureName,
         bins |-> Tabulate([b \in 1..numBins |-> Bin(b - 1)]),
         importance |-> RInt(0)]

(* new Set(array): the distinct values in order of first occurrence *)
UniqueValues(values) ==
    LET firsts == {SetMin({k \in DOMAIN values : values[k] = v}) : v \in Range(values)}
    IN  Tabulate([p \in 1..Cardinality(firsts) |->
            values[CHOOSE f \in firsts : Cardinality({g \in firsts : g < f}) = p - 1]])

(* binCategorical: the ModelFeature it stores under featureName: one bin    *)
(* per distinct value                                                       *)
binCategorical(featureName, trades) ==
    LET n == Len(trades)
        values == Tabulate([k \in 1..n |-> Obj(trades[k])[featureName]])
        isWin == Tabulate([k \in 1..n |-> Obj(trades[k]).outcome = "WIN"])
        uniqueValues == UniqueValues(values)
        Bin(value) ==
            LET cnt == Cardinality({k \in 1..n : values[k] = value})
                wins == Cardinality({k \in 1..n : values[k] = value /\ isWin[k]})
            IN  [min |-> RInt(0), max |-> RInt(0), count |-> cnt, wins |-> wins,
                 winRate |-> IF cnt > 0 THEN Rat(wins, cnt) ELSE RInt(0),
                 hasValue |-> TRUE, value |-> value]
    IN  [name |-> featureName,
         bins |-> Tabulate([b \in DOMAIN uniqueValues |-> Bin(uniqueValues[b])]),
         importance |-> RInt(0)]

(* Mutation of FeatureImportance: no check of the number of qualifying bins *)
FeatureImportance_NoGuard(feature) ==
    LET qualifying == SelectSeq(feature.bins, LAMBDA b : b.count >= minSampleSize)
        winRates == Tabulate([k \in DOMAIN qualifying |-> qualifying[k].winRate])
        len == Len(winRates)
        mean == RDiv(RSumSeq(winRates), RInt(len))
        squares == Tabulate([k \in DOMAIN winRates |->
                       RMul(RSub(winRates[k], mean), RSub(winRates[k], mean))])
        variance == RDiv(RSumSeq(squares), RInt(len))
    IN  RMin(RMul(variance, RInt(10)), RInt(1))

(* The importance of one feature: min(10 * variance of the win rates of the *)
(* bins with at least minSampleSize samples, 1); 0 with fewer than 2 such   *)
(* bins.                                                                    *)
FeatureImportance(feature) ==
    LET qualifying == SelectSeq(feature.bins, LAMBDA b : b.count >= minSampleSize)
        winRates == Tabulate([k \in DOMAIN qualifying |-> qualifying[k].winRate])
        len == Len(winRates)
        mean == RDiv(RSumSeq(winRates), RInt(len))
        squares == Tabulate([k \in DOMAIN winRates |->
                       RMul(RSub(winRates[k], mean), RSub(winRates[k], mean))])
        variance == RDiv(RSumSeq(squares), RInt(len))
    IN  IF len < 2 THEN RInt(0) ELSE RMin(RMul(variance, RInt(10)), RInt(1))

calculateFeatureImportance(features) ==
    Tabulate([k \in DOMAIN features |->
        [features[k] EXCEPT !.importance = FeatureImportance(features[k])]])

(* Mutation of train: a trained model keeps its state *)
train_OnlyOnce(m, trades) ==
    LET numeric == [k \in DOMAIN NumericFeatures |->
                       binFeature(NumericFeatures[k], trades, NumBins)]
        categorical == [k \in DOMAIN CategoricalFeatures |->
                           binCategorical(CategoricalFeatures[k], trades)]
        binned == MapSetAll(MapClear(m.features), numeric \o categorical)
    IN  IF m.trained THEN m
        ELSE [trained |-> TRUE, features |-> calculateFeatureImportance(binned)]

(* train(trades): the model state after the call *)
train(m, trades) ==
    LET numeric == [k \in DOMAIN NumericFeatures |->
                       binFeature(NumericFeatures[k], trades, NumBins)]
        categorical == [k \in DOMAIN CategoricalFeatures |->
                           binCategorical(CategoricalFeatures[k], trades)]
        binned == MapSetAll(MapClear(m.features), numeric \o categorical)
    IN  [trained |-> TRUE, features |-> calculateFeatureImportance(binned)]

(* The first bin of the feature that matches the value, as <<winRate, count>>; *)
(* <<0.5, 0>> when no bin matches.                                          *)
RECURSIVE FindBin(_, _, _)
FindBin(bins, featureValue, isNumber) ==
    IF bins = <<>> THEN [winRate |-> <<1, 2>>, count |-> 0]
    ELSE LET bin == Head(bins)
             hit == IF isNumber
                    THEN RGe(RInt(featureValue), bin.min) /\ RLt(RInt(featureValue), bin.max)
                    ELSE bin.count > 0 /\ bin.hasValue /\ bin.value = featureValue
         IN  IF hit THEN [winRate |-> bin.winRate, count |-> bin.count]
             ELSE FindBin(Tail(bins), featureValue, isNumber)

(* Array.prototype.sort((a, b) => b.score - a.score): stable, descending *)
RECURSIVE InsertByScore(_, _)
InsertByScore(sorted, x) ==
    IF sorted = <<>> THEN <<x>>
    ELSE IF RGe(Head(sorted).score, x.score)
         THEN <<Head(sorted)>> \o InsertByScore(Tail(sorted), x)
         ELSE <<x>> \o sorted

RECURSIVE SortByScore(_, _)
SortByScore(scores, acc) ==
    IF scores = <<>> THEN acc
    ELSE SortByScore(Tail(scores), InsertByScore(acc, Head(scores)))

NotTrained == [error |-> "NotTrained", winProbability |-> NaN, keyFeatures |-> <<>>]

(* predict, lines 192-224: the weighted score of one feature of the model *)
Score(modelFeature, features) ==
    LET bin == FindBin(modelFeature.bins, features[modelFeature.name],
                       modelFeature.name \in NumberFields)
    IN  [feature |-> modelFeature.name,
         score |-> RMul(RMul(bin.winRate, modelFeature.importance),
                        RMin(Rat(bin.count, minSampleSize), RInt(1))),
         winRate |-> bin.winRate]

(* Mutation of WinProbability: 0 when the total weight is not positive *)
WinProbability_DefaultZero(topFeatures) ==
    LET totalWeight == RSumSeq(Tabulate([k \in DOMAIN topFeatures |->
                                            topFeatures[k].score]))
    IN  IF RGt(totalWeight, RInt(0))
        THEN RDiv(RSumSeq(Tabulate([k \in DOMAIN topFeatures |->
                              RMul(topFeatures[k].score, topFeatures[k].winRate)])),
                  totalWeight)
        ELSE RInt(0)

(* predict, lines 232-234: winProbability from the top features *)
WinProbability(topFeatures) ==
    LET totalWeight == RSumSeq(Tabulate([k \in DOMAIN topFeatures |->
                                            topFeatures[k].score]))
    IN  IF RGt(totalWeight, RInt(0))
        THEN RDiv(RSumSeq(Tabulate([k \in DOMAIN topFeatures |->
                              RMul(topFeatures[k].score, topFeatures[k].winRate)])),
                  totalWeight)
        ELSE <<1, 2>>

(* predict, lines 230-252: the prediction from the sorted scores.  The      *)
(* confidence and the reason text are not modelled.                         *)
Prediction(weightedScores) ==
    [error |-> "",
     winProbability |->
         WinProbability(SubSeq(weightedScores, 1, Min2(10, Len(weightedScores)))),
     keyFeatures |-> Tabulate([k \in 1..Min2(5, Len(weightedScores)) |->
                                  weightedScores[k].feature])]

(* predict(features) on model m *)
predict(m, features) ==
    IF ~m.trained THEN NotTrained
    ELSE Prediction(SortByScore(Tabulate([k \in DOMAIN m.features |->
                                             Score(m.features[k], features)]),
                                <<>>))

-----------------------------------------------------------------------------
(* extractAllTrades: the jobs, in the order the two nested loops build them *)

Jobs ==
    [k \in 1..(Len(timeframes) * NumSymbols) |->
        [symbol |-> symbols[((k - 1) % NumSymbols) + 1],
         timeframe |-> timeframes[((k - 1) \div NumSymbols) + 1]]]

total == Len(symbols) * Len(timeframes)

(* What loadData can do for a job: throw (no data file), or resolve with a  *)
(* candle array of some length.                                             *)
LoadOutcomes ==
    {[found |-> FALSE, candles |-> 0],
     [found |-> TRUE, candles |-> 299],
     [found |-> TRUE, candles |-> 300]}

(* The trades extractTradesForSymbol builds from a job's candles (the       *)
(* candle-by-candle analysis is not modelled here: each job's result is a   *)
(* fixed list of objects of the heap).                                      *)
JobTrades(job) ==
    IF job.symbol = "BTCUSDT" /\ job.timeframe = "1d" THEN [k \in 1..199 |-> k]
    ELSE IF job.symbol = "ETHUSDT" /\ job.timeframe = "1d" THEN <<200>>
    ELSE IF job.symbol = "BTCUSDT" /\ job.timeframe = "1h" THEN <<201, 202, 203>>
    ELSE <<>>

NoResult == [settled |-> FALSE]

(* extractTradesForSymbol inside the try/catch of the batch promise *)
extractTradesForSymbol(job, load) ==
    IF ~load.found
    THEN [settled |-> TRUE, success |-> FALSE, trades |-> <<>>, error |-> "Data file not found"]
    ELSE IF load.candles < MinCandles
    THEN [settled |-> TRUE, success |-> FALSE, trades |-> <<>>, error |-> "Insufficient data"]
    ELSE [settled |-> TRUE, success |-> TRUE, trades |-> JobTrades(job), error |-> ""]

batchSize == workers

(* Mutation of Batch: a batch takes one job more than batchSize *)
Batch_OneMore(i) == (i + 1)..Min2(i + batchSize + 1, Len(Jobs))

(* jobs.slice(i, i + batchSize), as 1-based job indexes *)
Batch(i) == (i + 1)..Min2(i + batchSize, Len(Jobs))

InFlight == {j \in started : ~jobResult[j].settled}

(* Mutation of InitialModel: a new model counts as trained *)
InitialModel_Trained == [trained |-> TRUE, features |-> <<>>]

(* new TradingMLModel(): trained = false and an empty features map *)
InitialModel == [trained |-> FALSE, features |-> <<>>]

(* The state after new BacktestLearnLoop(), whose constructor makes the     *)
(* untrained model: everything but the position of the program and the      *)
(* candles loaded                                                           *)
Constructed ==
    /\ started = {}
    /\ jobResult = [j \in DOMAIN Jobs |-> NoResult]
    /\ batchIdx = 0
    /\ completed = 0
    /\ failed = 0
    /\ results = <<>>
    /\ allTrades = <<>>
    /\ iterations = <<>>
    /\ model = InitialModel
    /\ lastAccuracy = RInt(0)
    /\ trainingData = <<>>
    /\ iter = 0
    /\ trainSet = <<>>
    /\ testSet = <<>>
    /\ testEval = [accuracy |-> RInt(0), errors |-> <<>>]
    /\ trainAccuracy = RInt(0)
    /\ trainCalls = 0
    /\ lastPredict = [called |-> FALSE]
    /\ prevTrainSet = <<>>
    /\ minScore = DefaultMinScore
    /\ evalIndex = 0
    /\ extracted = <<>>
    /\ lastCall = [op |-> "none"]
    /\ scored = <<>>

Init == pc = "init" /\ Constructed /\ candles = <<>>

(* run() up to its first await: extractAllTrades builds the jobs and maps   *)
(* the first batch, which invokes every job of the batch.                   *)
RunStart ==
    /\ pc = "init"
    /\ pc' = "extracting"
    /\ batchIdx' = 0
    /\ started' = Batch(0)
    /\ UNCHANGED <<jobResult, completed, failed, results, allTrades, model,
                   trainCalls, lastPredict, prevTrainSet>>
    /\ UNCHANGED loopVars
    /\ UNCHANGED candleVars

(* Mutation of JobSettles: a failing job is not counted as completed *)
JobSettles_SkipsFailed(j, load) ==
    /\ pc = "extracting"
    /\ j \in InFlight
    /\ LET r == extractTradesForSymbol(Jobs[j], load)
       IN  /\ jobResult' = [jobResult EXCEPT ![j] = r]
           /\ completed' = IF r.success THEN completed + 1 ELSE completed
           /\ failed' = IF r.success THEN failed ELSE failed + 1
    /\ UNCHANGED <<pc, started, batchIdx, results, allTrades, model, trainCalls,
                   lastPredict, prevTrainSet>>
    /\ UNCHANGED loopVars
    /\ UNCHANGED candleVars

(* One job's promise settles: loadData resolved or threw, the rest of the   *)
(* job ran, and the try or the catch branch counted it.                     *)
JobSettles(j, load) ==
    /\ pc = "extracting"
    /\ j \in InFlight
    /\ LET r == extractTradesForSymbol(Jobs[j], load)
       IN  /\ jobResult' = [jobResult EXCEPT ![j] = r]
           /\ completed' = completed + 1
           /\ failed' = IF r.success THEN failed ELSE failed + 1
    /\ UNCHANGED <<pc, started, batchIdx, results, allTrades, model, trainCalls,
                   lastPredict, prevTrainSet>>
    /\ UNCHANGED loopVars
    /\ UNCHANGED candleVars

(* results after the loop over batchResults *)
RECURSIVE Collect(_, _)
Collect(res, js) ==
    IF js = <<>> THEN res
    ELSE Collect(IF jobResult[Head(js)].success
                 THEN Append(res, jobResult[Head(js)].trades) ELSE res, Tail(js))

BatchSeq(i) == [k \in 1..Cardinality(Batch(i)) |-> i + k]

(* Promise.all(batchPromises) resolved: collect the batch, then either map  *)
(* the next batch or flatten the results into this.allTrades and return.    *)
BatchDone ==
    /\ pc = "extracting"
    /\ \A j \in Batch(batchIdx) : jobResult[j].settled
    /\ LET res == Collect(results, BatchSeq(batchIdx))
           next == batchIdx + batchSize
       IN  /\ results' = res
           /\ batchIdx' = next
           /\ IF next < Len(Jobs)
              THEN /\ started' = started \cup Batch(next)
                   /\ UNCHANGED <<pc, allTrades>>
              ELSE /\ allTrades' = allTrades \o FlattenSeq(res)
                   /\ pc' = "extracted"
                   /\ UNCHANGED started
    /\ UNCHANGED <<jobResult, completed, failed, model, trainCalls, lastPredict, prevTrainSet>>
    /\ UNCHANGED loopVars
    /\ UNCHANGED candleVars

-----------------------------------------------------------------------------
(* run(): the learning loop *)

(* What predict can read of a trade: the fields a model feature can name,  *)
(* which are neither entry_time nor outcome.                                *)
PredictInput(trade) == [trade EXCEPT !.entry_time = 0, !.outcome = "WIN"]

(* evaluateModel, lines 367-369: whether the prediction for the trade is    *)
(* wrong.  prediction is the table of predict per distinct input.           *)
IsError(prediction, id) ==
    RGe(prediction[PredictInput(Obj(id))].winProbability, <<1, 2>>)
        # (Obj(id).outcome = "WIN")

(* evaluateModel, lines 378-381: the result, from the errors *)
Evaluation(trades, errors) ==
    [error |-> "",
     accuracy |-> Rat(Len(trades) - Len(errors), Len(trades)),
     errors |-> errors]

(* evaluateModel(trades).  A throw of predict leaves evaluateModel by        *)
(* exception (error).                                                       *)
evaluateModel(m, trades) ==
    IF ~m.trained /\ trades # <<>>
    THEN [error |-> "NotTrained", accuracy |-> NaN, errors |-> <<>>]
    ELSE LET prediction ==
                 Tabulate([o \in {PredictInput(Obj(id)) : id \in Range(trades)} |->
                              predict(m, o)])
         IN  Evaluation(trades,
                        SubSeqAt(trades, {k \in DOMAIN trades :
                                             IsError(prediction, trades[k])}))

(* Math.floor(n * 0.7) in IEEE doubles: 0.7 is not a double, and for these  *)
(* n (all such n below 2048) the product rounds to just below 7n/10.        *)
SplitRoundsDown == {90, 170, 180, 330, 340, 350, 360} \cup {10 * k : k \in 65..73}
                       \cup {10 * k : k \in 129..146}
SplitIdx(n) == IF n \in SplitRoundsDown THEN ((7 * n) \div 10) - 1 ELSE (7 * n) \div 10

(* [...trainingData].sort(() => Math.random() - 0.5): some permutation of   *)
(* the pool.  The permutations tried are the rotations by these offsets.    *)
ShuffleOffsets == {0, 60, 100, 150}
Rotate(s, k) == SubSeq(s, k + 1, Len(s)) \o SubSeq(s, 1, k)
Shuffles(s) == {Rotate(s, k) : k \in {o \in ShuffleOffsets : o <= Len(s)}}

(* minAccuracyImprovement = 0.005 *)
minAccuracyImprovement == <<5, 1000>>

(* Mutation of CheckCorpus: no minimum corpus size *)
CheckCorpus_NoMinimum ==
    /\ pc = "extracted"
    /\ started' = {}
    /\ jobResult' = [j \in DOMAIN Jobs |-> NoResult]
    /\ batchIdx' = 0
    /\ completed' = 0
    /\ failed' = 0
    /\ results' = <<>>
    /\ lastAccuracy' = RInt(0)
    /\ trainingData' = allTrades
    /\ iter' = 1
    /\ pc' = "loop"
    /\ UNCHANGED <<allTrades, iterations, model, trainSet, testSet, testEval,
                   trainAccuracy, trainCalls, lastPredict, prevTrainSet>>
    /\ UNCHANGED candleVars

(* Lines 106-130: the corpus check and the loop's initialisation.  The      *)
(* locals of extractAllTrades are gone.                                     *)
CheckCorpus ==
    /\ pc = "extracted"
    /\ started' = {}
    /\ jobResult' = [j \in DOMAIN Jobs |-> NoResult]
    /\ batchIdx' = 0
    /\ completed' = 0
    /\ failed' = 0
    /\ results' = <<>>
    /\ IF Len(allTrades) < MinCorpusSize
       THEN /\ pc' = "aborted"
            /\ UNCHANGED <<lastAccuracy, trainingData, iter>>
       ELSE /\ lastAccuracy' = RInt(0)
            /\ trainingData' = allTrades
            /\ iter' = 1
            /\ pc' = "loop"
    /\ UNCHANGED <<allTrades, iterations, model, trainSet, testSet, testEval,
                   trainAccuracy, trainCalls, lastPredict, prevTrainSet>>
    /\ UNCHANGED candleVars

(* Lines 132-139: the loop condition, then shuffle and split *)
Split ==
    /\ pc = "loop"
    /\ iter <= maxIterations
    /\ \E shuffled \in Shuffles(trainingData) :
          LET splitIdx == SplitIdx(Len(shuffled))
          IN  /\ trainSet' = SubSeq(shuffled, 1, splitIdx)
              /\ testSet' = SubSeq(shuffled, splitIdx + 1, Len(shuffled))
    /\ pc' = "train"
    /\ UNCHANGED <<allTrades, iterations, model, lastAccuracy, trainingData, iter,
                   testEval, trainAccuracy, trainCalls, lastPredict, prevTrainSet>>
    /\ UNCHANGED extractVars
    /\ UNCHANGED candleVars

(* The loop condition fails: on to saveResults *)
LoopExit ==
    /\ pc = "loop"
    /\ iter > maxIterations
    /\ pc' = "save"
    /\ UNCHANGED <<allTrades, model, trainCalls, lastPredict, prevTrainSet>>
    /\ UNCHANGED loopVars
    /\ UNCHANGED extractVars
    /\ UNCHANGED candleVars

(* Line 143: this.model.train(trainSet) *)
Train ==
    /\ pc = "train"
    /\ model' = train(model, trainSet)
    /\ trainCalls' = trainCalls + 1
    /\ pc' = "test"
    /\ UNCHANGED <<allTrades, lastPredict, prevTrainSet>>
    /\ UNCHANGED loopVars
    /\ UNCHANGED extractVars
    /\ UNCHANGED candleVars

(* Mutation of EvalTest: the errors kept are those of the train set *)
EvalTest_OnTrainSet ==
    /\ pc = "test"
    /\ LET e == evaluateModel(model, testSet)
       IN  /\ testEval' = [accuracy |-> e.accuracy,
                           errors |-> evaluateModel(model, trainSet).errors]
           /\ pc' = IF e.error = "" THEN "evaltrain" ELSE "failed"
    /\ UNCHANGED <<allTrades, iterations, model, lastAccuracy, trainingData, iter,
                   trainSet, testSet, trainAccuracy, trainCalls, lastPredict, prevTrainSet>>
    /\ UNCHANGED extractVars
    /\ UNCHANGED candleVars

(* Line 147: evaluateModel(testSet) *)
EvalTest ==
    /\ pc = "test"
    /\ LET e == evaluateModel(model, testSet)
       IN  /\ testEval' = [accuracy |-> e.accuracy, errors |-> e.errors]
           /\ pc' = IF e.error = "" THEN "evaltrain" ELSE "failed"
    /\ UNCHANGED <<allTrades, iterations, model, lastAccuracy, trainingData, iter,
                   trainSet, testSet, trainAccuracy, trainCalls, lastPredict, prevTrainSet>>
    /\ UNCHANGED extractVars
    /\ UNCHANGED candleVars

(* Line 148: evaluateModel(trainSet).accuracy *)
EvalTrain ==
    /\ pc = "evaltrain"
    /\ LET e == evaluateModel(model, trainSet)
       IN  /\ trainAccuracy' = e.accuracy
           /\ pc' = IF e.error = "" THEN "record" ELSE "failed"
    /\ UNCHANGED <<allTrades, iterations, model, lastAccuracy, trainingData, iter,
                   trainSet, testSet, testEval, trainCalls, lastPredict, prevTrainSet>>
    /\ UNCHANGED extractVars
    /\ UNCHANGED candleVars

improvement == RSub(testEval.accuracy, lastAccuracy)

(* Mutation of Record: no convergence check *)
Record_NeverConverges ==
    /\ pc = "record"
    /\ iterations' = Append(iterations,
          [iteration |-> iter,
           tradesExtracted |-> Len(trainingData),
           trainAccuracy |-> trainAccuracy,
           testAccuracy |-> testEval.accuracy,
           predictionErrors |-> Len(testEval.errors),
           improvementFromLast |-> improvement])
    /\ pc' = "emphasize"
    /\ UNCHANGED <<allTrades, model, lastAccuracy, trainingData, iter, trainSet,
                   testSet, testEval, trainAccuracy, trainCalls, lastPredict,
                   prevTrainSet>>
    /\ UNCHANGED extractVars
    /\ UNCHANGED candleVars

(* Lines 150-170: record the iteration, then the convergence check *)
Record ==
    /\ pc = "record"
    /\ iterations' = Append(iterations,
          [iteration |-> iter,
           tradesExtracted |-> Len(trainingData),
           trainAccuracy |-> trainAccuracy,
           testAccuracy |-> testEval.accuracy,
           predictionErrors |-> Len(testEval.errors),
           improvementFromLast |-> improvement])
    /\ pc' = IF iter > 1 /\ RLt(improvement, minAccuracyImprovement)
             THEN "save" ELSE "emphasize"
    /\ UNCHANGED <<allTrades, model, lastAccuracy, trainingData, iter, trainSet,
                   testSet, testEval, trainAccuracy, trainCalls, lastPredict, prevTrainSet>>
    /\ UNCHANGED extractVars
    /\ UNCHANGED candleVars

(* Mutation of PushTimes: the errors are pushed once, whatever the multiplier *)
PushTimes_Once(data, errors, times) == data \o errors

(* trainingData.push(...errors), errorEmphasisMultiplier - 1 times *)
RECURSIVE PushTimes(_, _, _)
PushTimes(data, errors, times) ==
    IF times <= 0 THEN data ELSE PushTimes(data \o errors, errors, times - 1)

(* Mutation of Emphasize: the loop counter advances by two *)
Emphasize_SkipsNumber ==
    /\ pc = "emphasize"
    /\ trainingData' = IF iter < maxIterations
                       THEN PushTimes(trainingData, testEval.errors,
                                      errorEmphasisMultiplier - 1)
                       ELSE trainingData
    /\ lastAccuracy' = testEval.accuracy
    /\ iter' = iter + 2
    /\ pc' = "loop"
    /\ UNCHANGED <<allTrades, iterations, model, trainSet, testSet, testEval,
                   trainAccuracy, trainCalls, lastPredict, prevTrainSet>>
    /\ UNCHANGED extractVars
    /\ UNCHANGED candleVars

(* Mutation of Emphasize: the errors are added to the corpus, not to the pool *)
Emphasize_FromCorpus ==
    /\ pc = "emphasize"
    /\ trainingData' = IF iter < maxIterations
                       THEN PushTimes(allTrades, testEval.errors,
                                      errorEmphasisMultiplier - 1)
                       ELSE trainingData
    /\ lastAccuracy' = testEval.accuracy
    /\ iter' = iter + 1
    /\ pc' = "loop"
    /\ UNCHANGED <<allTrades, iterations, model, trainSet, testSet, testEval,
                   trainAccuracy, trainCalls, lastPredict, prevTrainSet>>
    /\ UNCHANGED extractVars
    /\ UNCHANGED candleVars

(* Mutation of Emphasize: the pool is the corpus itself, not a copy of it *)
Emphasize_Aliased ==
    /\ pc = "emphasize"
    /\ trainingData' = IF iter < maxIterations
                       THEN PushTimes(trainingData, testEval.errors,
                                      errorEmphasisMultiplier - 1)
                       ELSE trainingData
    /\ allTrades' = trainingData'
    /\ lastAccuracy' = testEval.accuracy
    /\ iter' = iter + 1
    /\ pc' = "loop"
    /\ UNCHANGED <<iterations, model, trainSet, testSet, testEval,
                   trainAccuracy, trainCalls, lastPredict, prevTrainSet>>
    /\ UNCHANGED extractVars
    /\ UNCHANGED candleVars

(* Lines 172-185: emphasize the errors, lastAccuracy = testAccuracy, i++ *)
Emphasize ==
    /\ pc = "emphasize"
    /\ trainingData' = IF iter < maxIterations
                       THEN PushTimes(trainingData, testEval.errors,
                                      errorEmphasisMultiplier - 1)
                       ELSE trainingData
    /\ lastAccuracy' = testEval.accuracy
    /\ iter' = iter + 1
    /\ pc' = "loop"
    /\ UNCHANGED <<allTrades, iterations, model, trainSet, testSet, testEval,
                   trainAccuracy, trainCalls, lastPredict, prevTrainSet>>
    /\ UNCHANGED extractVars
    /\ UNCHANGED candleVars

(* Line 192: saveResults writes the history, the model state and the corpus *)
(* to files; no state of the loop changes.                                  *)
SaveResults ==
    /\ pc = "save"
    /\ pc' = "done"
    /\ UNCHANGED <<allTrades, model, trainCalls, lastPredict, prevTrainSet>>
    /\ UNCHANGED loopVars
    /\ UNCHANGED extractVars
    /\ UNCHANGED candleVars

Next ==
    \/ RunStart
    \/ \E j \in DOMAIN Jobs, load \in LoadOutcomes : JobSettles(j, load)
    \/ BatchDone
    \/ CheckCorpus
    \/ Split
    \/ LoopExit
    \/ Train
    \/ EvalTest
    \/ EvalTrain
    \/ Record
    \/ Emphasize
    \/ SaveResults

Spec == Init /\ [][Next]_vars

-----------------------------------------------------------------------------
(* Properties of run() and of extractAllTrades *)

(* The number of entries of s equal to x *)
CountIn(s, x) == Cardinality({k \in DOMAIN s : s[k] = x})

(* C1: once the corpus check has run on fewer than 200 records, run has      *)
(* aborted: the model is untrained, train was never called and there is no  *)
(* iteration record.                                                        *)
C1_CorpusTooSmall ==
    (pc \notin {"init", "extracting", "extracted"} /\ Len(allTrades) < MinCorpusSize)
        => /\ pc = "aborted"
           /\ ~model.trained
           /\ trainCalls = 0
           /\ iterations = <<>>

C1_Witness == pc = "aborted" /\ Len(allTrades) = MinCorpusSize - 1

(* C2: an iteration k >= 2 whose test accuracy is less than 0.005 above the  *)
(* test accuracy of iteration k - 1 is the last one: the loop has stopped at *)
(* it and the pool is the one that iteration split, with no copies added.   *)
(* A run never stops by convergence after iteration 1: a run that ended     *)
(* with one iteration had maxIterations = 1.                                *)
C2_ConvergenceStop ==
    /\ \A k \in DOMAIN iterations :
          (/\ k >= 2
           /\ RLt(RSub(iterations[k].testAccuracy, iterations[k - 1].testAccuracy),
                  minAccuracyImprovement))
             => /\ k = Len(iterations)
                /\ pc \in {"save", "done"}
                /\ iter = k
                /\ Len(trainingData) = iterations[k].tradesExtracted
    /\ (pc \in {"save", "done"} /\ Len(iterations) = 1) => maxIterations = 1

C2_Witness ==
    /\ pc = "done"
    /\ Len(iterations) >= 2
    /\ Len(iterations) < maxIterations
    /\ iterations[Len(iterations)].predictionErrors > 0
    /\ Len(trainingData) = iterations[Len(iterations)].tradesExtracted

(* C3: no step shrinks the pool, and the step that lets the loop continue    *)
(* adds to the pool errorEmphasisMultiplier - 1 copies of each test record  *)
(* the trained model misclassifies, and nothing else.                       *)
C3_PoolGrowth ==
    [][/\ Len(trainingData') >= Len(trainingData)
       /\ (pc = "emphasize" /\ iter' <= maxIterations)
             => LET table == Tabulate([o \in {PredictInput(Obj(id)) :
                                                  id \in Range(testSet)} |->
                                          predict(model, o)])
                    Misclassified(id) ==
                        RGe(table[PredictInput(Obj(id))].winProbability, <<1, 2>>)
                            # (Obj(id).outcome = "WIN")
                IN  \A id \in 1..NumObjects :
                       CountIn(trainingData', id) =
                           CountIn(trainingData, id)
                           + (errorEmphasisMultiplier - 1)
                             * (IF id \in Range(testSet) /\ Misclassified(id)
                                THEN CountIn(testSet, id) ELSE 0)]_vars

C3_Witness ==
    /\ pc = "loop"
    /\ iter \in 2..maxIterations
    /\ Len(trainingData) > Len(allTrades)

(* The steps the loop can still take, at most: 6 per iteration from the one  *)
(* in progress to iteration maxIterations, then the exit and saveResults.   *)
LoopRank ==
    LET StepsLeft(p) == CASE p = "loop" -> 6 [] p = "train" -> 5 [] p = "test" -> 4
                          [] p = "evaltrain" -> 3 [] p = "record" -> 2
                          [] p = "emphasize" -> 1
    IN  IF pc \in {"loop", "train", "test", "evaltrain", "record", "emphasize"}
        THEN 6 * (maxIterations - iter) + StepsLeft(pc) + 2
        ELSE IF pc = "save" THEN 1 ELSE 0

(* C4: there are never more than maxIterations iteration records, record k   *)
(* is numbered k, every executed iteration (train call) has exactly one     *)
(* record once it is over, and the loop ends: each of its steps leaves      *)
(* fewer steps to take, none when none is left.                             *)
C4_LoopTerminates ==
    /\ [](/\ Len(iterations) <= maxIterations
          /\ \A k \in DOMAIN iterations : iterations[k].iteration = k
          /\ Len(iterations) =
                IF pc \in {"test", "evaltrain", "record"}
                THEN trainCalls - 1 ELSE trainCalls)
    /\ [][(pc \in {"loop", "train", "test", "evaltrain", "record", "emphasize",
                   "save"})
              => ((LoopRank' < LoopRank) /\ (LoopRank' >= 0))]_vars

C4_Witness ==
    /\ pc = "save"
    /\ iter = maxIterations + 1
    /\ Len(iterations) = maxIterations

(* C5: while iteration i is in progress, the i - 1 iterations before it are  *)
(* over (trained, evaluated on test and train set, recorded), the train and *)
(* test set are a split of the current pool, and each iteration's pool is   *)
(* the pool of the iteration before plus its emphasis copies (the corpus,   *)
(* for iteration 1).                                                        *)
C5_SequentialPool ==
    /\ \A k \in DOMAIN iterations :
          iterations[k].tradesExtracted =
              IF k = 1 THEN Len(allTrades)
              ELSE iterations[k - 1].tradesExtracted
                   + (errorEmphasisMultiplier - 1) * iterations[k - 1].predictionErrors
    /\ pc \in {"train", "test", "evaltrain", "record"}
          => /\ trainCalls = IF pc = "train" THEN iter - 1 ELSE iter
             /\ Len(iterations) = iter - 1
             /\ \A id \in 1..NumObjects :
                   CountIn(trainSet, id) + CountIn(testSet, id)
                       = CountIn(trainingData, id)
             /\ Len(trainingData) =
                   IF iter = 1 THEN Len(allTrades)
                   ELSE iterations[iter - 1].tradesExtracted
                        + (errorEmphasisMultiplier - 1)
                          * iterations[iter - 1].predictionErrors

C5_Witness ==
    /\ pc = "train"
    /\ iter >= 2
    /\ iterations[iter - 1].predictionErrors > 0

(* C6: at most `workers` jobs are in flight, and a job has started only if   *)
(* every job of every earlier batch has started and settled.                *)
C6_BatchesOfWorkers ==
    /\ Cardinality(InFlight) <= workers
    /\ \A j \in started, j2 \in DOMAIN Jobs :
          ((j2 - 1) \div workers) < ((j - 1) \div workers)
             => j2 \in started /\ jobResult[j2].settled

C6_Witness == Cardinality(InFlight) = workers /\ batchIdx > 0

(* The trades of the successful jobs among jobs j..total, in job order *)
RECURSIVE SuccessfulTrades(_)
SuccessfulTrades(j) ==
    IF j > total THEN <<>>
    ELSE (IF jobResult[j].success THEN JobTrades(Jobs[j]) ELSE <<>>)
         \o SuccessfulTrades(j + 1)

(* C7: when extractAllTrades returns, every job has run and settled,         *)
(* completed = total, the failures counted are the failed jobs, successes   *)
(* plus failures = total, and the corpus is the trades of the successful    *)
(* jobs.                                                                    *)
C7_FailureIsolation ==
    pc = "extracted"
        => /\ started = DOMAIN Jobs
           /\ \A j \in DOMAIN Jobs : jobResult[j].settled
           /\ completed = total
           /\ failed = Cardinality({j \in DOMAIN Jobs : ~jobResult[j].success})
           /\ Len(results) + failed = total
           /\ allTrades = SuccessfulTrades(1)

C7_Witness ==
    /\ pc = "extracted"
    /\ failed > 0
    /\ failed < total
    /\ Len(allTrades) >= MinCorpusSize

(* The number of bins of the feature with at least minSampleSize samples *)
QualifyingBins(feature) ==
    Cardinality({b \in DOMAIN feature.bins : feature.bins[b].count >= minSampleSize})

(* C11: after train, a feature with fewer than 2 bins of at least            *)
(* minSampleSize samples (also one with no such bin) has importance 0, and  *)
(* every feature's importance is a number in [0, 1].                        *)
C11_ImportanceRange ==
    model.trained
        => \A k \in DOMAIN model.features :
              /\ QualifyingBins(model.features[k]) < 2
                    => model.features[k].importance = RInt(0)
              /\ RGe(model.features[k].importance, RInt(0))
              /\ RLe(model.features[k].importance, RInt(1))

C11_Witness ==
    /\ model.trained
    /\ \E k \in DOMAIN model.features :
          /\ QualifyingBins(model.features[k]) = 1
          /\ model.features[k].importance = RInt(0)
    /\ \E k \in DOMAIN model.features : QualifyingBins(model.features[k]) = 0
    /\ \E k \in DOMAIN model.features :
          /\ QualifyingBins(model.features[k]) >= 2
          /\ model.features[k].importance = RInt(1)

-----------------------------------------------------------------------------
(* TradingMLModel used by a client: train and predict called in any order   *)
(* on one model, on small corpora.                                          *)

(* Objects 1 (long, RSI 30, WIN), 2 (short, RSI 50, LOSS) and 25 (long, RSI *)
(* 70, WIN)                                                                 *)
ModelRecords == {1, 2, 25}

(* A corpus in which every value of every feature wins half of the time:    *)
(* 15 times objects 1 (long, WIN), 145 (long, LOSS), 2 (short, LOSS) and 20 *)
(* (short, WIN)                                                             *)
BalancedCorpus == [k \in 1..60 |-> <<1, 145, 2, 20>>[((k - 1) % 4) + 1]]

(* A corpus in which longs win and shorts lose: objects 1..60 *)
SkewedCorpus == [k \in 1..60 |-> k]

ModelCorpora ==
    {<<>>, <<1>>, <<2>>, <<1, 2>>, <<2, 1>>, <<1, 1, 2>>, <<2, 25>>,
     <<1, 2, 25>>, <<25, 2, 1>>, <<2, 25, 2>>, BalancedCorpus, SkewedCorpus}

ModelInit == pc = "model" /\ Constructed /\ candles = <<>>

(* model.train(corpus) *)
TrainCall(corpus) ==
    /\ pc = "model"
    /\ trainCalls < MaxTrainCalls
    /\ model' = train(model, corpus)
    /\ trainSet' = corpus
    /\ prevTrainSet' = trainSet
    /\ trainCalls' = trainCalls + 1
    /\ lastPredict' = [called |-> FALSE]
    /\ UNCHANGED <<pc, allTrades, iterations, lastAccuracy, trainingData, iter,
                   testSet, testEval, trainAccuracy>>
    /\ UNCHANGED extractVars
    /\ UNCHANGED candleVars

(* model.predict(features) on the fields of object id *)
PredictCall(id) ==
    /\ pc = "model"
    /\ lastPredict' = [called |-> TRUE, trainCalls |-> trainCalls, input |-> id,
                       result |-> predict(model, Obj(id))]
    /\ UNCHANGED <<pc, allTrades, model, trainCalls, prevTrainSet>>
    /\ UNCHANGED loopVars
    /\ UNCHANGED extractVars
    /\ UNCHANGED candleVars

ModelNext ==
    \/ \E corpus \in ModelCorpora : TrainCall(corpus)
    \/ \E id \in ModelRecords : PredictCall(id)

SpecModel == ModelInit /\ [][ModelNext]_vars

-----------------------------------------------------------------------------
(* Properties of TradingMLModel *)

(* C8: a predict call made before any train call fails with NotTrained and   *)
(* returns no probability; one made after a train call does not fail and    *)
(* returns a probability.                                                   *)
C8_NotTrained ==
    lastPredict.called
        => IF lastPredict.trainCalls = 0
           THEN /\ lastPredict.result.error = "NotTrained"
                /\ IsNaN(lastPredict.result.winProbability)
           ELSE /\ lastPredict.result.error = ""
                /\ RGe(lastPredict.result.winProbability, RInt(0))
                /\ RLe(lastPredict.result.winProbability, RInt(1))

C8_Witness == lastPredict.called /\ lastPredict.trainCalls = 0

(* The feature of the model with the given name *)
FeatureNamed(m, name) ==
    m.features[CHOOSE k \in DOMAIN m.features : m.features[k].name = name]

(* C9: after train, for every numeric feature, each training record's value  *)
(* lies in exactly one bin, the largest value lies in the last bin, and the *)
(* bin counts sum to the number of training records.                        *)
C9_BinsPartition ==
    model.trained
        => \A f \in Range(NumericFeatures) :
              LET bins == FeatureNamed(model, f).bins
                  InBin(v, b) == RGe(RInt(v), bins[b].min) /\ RLt(RInt(v), bins[b].max)
                  values == {Obj(trainSet[k])[f] : k \in DOMAIN trainSet}
              IN  /\ \A v \in values :
                         Cardinality({b \in DOMAIN bins : InBin(v, b)}) = 1
                  /\ values # {} => InBin(SetMax(values), Len(bins))
                  /\ SumSeq([b \in DOMAIN bins |-> bins[b].count]) = Len(trainSet)

(* The entries of s in ascending order *)
SortedIds(s) ==
    Tabulate([p \in 1..Len(s) |->
        CHOOSE x \in Range(s) :
            /\ Cardinality({k \in DOMAIN s : s[k] < x}) < p
            /\ p <= Cardinality({k \in DOMAIN s : s[k] <= x})])

(* The bins of a model, per feature name: the list of bins of a numeric      *)
(* feature, the set of bins of a categorical one.                           *)
BinsOf(m) ==
    [name \in {m.features[k].name : k \in DOMAIN m.features} |->
        IF name \in Range(NumericFeatures)
        THEN FeatureNamed(m, name).bins
        ELSE Range(FeatureNamed(m, name).bins)]

(* C10: after any sequence of train calls the bins are those a new model     *)
(* gets from one train call on the records of the last corpus in ascending  *)
(* order: they depend on the multiset of the last corpus alone.             *)
C10_TrainReplaces ==
    trainCalls >= 1 => BinsOf(model) = BinsOf(train(InitialModel, SortedIds(trainSet)))

C10_Witness ==
    /\ trainCalls >= 2
    /\ trainSet # SortedIds(trainSet)
    /\ SortedIds(prevTrainSet) # SortedIds(trainSet)
    /\ prevTrainSet # <<>>

(* The total score weight of the (at most) 10 features of highest score *)
TotalWeight(m, features) ==
    LET sorted == SortByScore(Tabulate([k \in DOMAIN m.features |->
                                           Score(m.features[k], features)]), <<>>)
    IN  RSumSeq(Tabulate([k \in 1..Min2(10, Len(sorted)) |-> sorted[k].score]))

(* Every bin of the model that holds a sample has win rate exactly 0.5 *)
AllBinsHalf(m) ==
    \A k \in DOMAIN m.features :
        \A b \in DOMAIN m.features[k].bins :
            m.features[k].bins[b].count > 0 => m.features[k].bins[b].winRate = <<1, 2>>

(* C12: a predict call on a trained model returns winProbability exactly    *)
(* 0.5 when the total score weight of its top 10 features is zero, and for  *)
(* every query when every non-empty bin of the model has win rate 0.5.      *)
C12_DefaultHalf ==
    (lastPredict.called /\ lastPredict.trainCalls >= 1)
        => /\ TotalWeight(model, Obj(lastPredict.input)) = RInt(0)
                 => lastPredict.result.winProbability = <<1, 2>>
           /\ AllBinsHalf(model) => lastPredict.result.winProbability = <<1, 2>>

C12_Witness ==
    /\ lastPredict.called
    /\ lastPredict.trainCalls >= 1
    /\ trainSet = BalancedCorpus
    /\ AllBinsHalf(model)
    /\ \E k \in DOMAIN model.features : QualifyingBins(model.features[k]) >= 2
    /\ TotalWeight(model, Obj(lastPredict.input)) = RInt(0)
    /\ lastPredict.result.winProbability = <<1, 2>>

-----------------------------------------------------------------------------
(* Candles.  A candle array is a sequence of records; the code's indexes    *)
(* are 0-based, so candles[i] is At(cs, i).  Prices are positive integers   *)
(* with low <= open, close <= high; timestamp is the candle's position.     *)

At(cs, i) == cs[i + 1]

(* A value the code treats as true in `x || y` and `if (x)`: a number that  *)
(* is neither 0, NaN nor null.  null is written Null.                       *)
Null == NaN
Truthy(r) == ~IsNaN(r) /\ r[1] # 0

RAbs(a) == IF IsNaN(a) THEN NaN ELSE <<Abs(a[1]), a[2]>>

-----------------------------------------------------------------------------
(* simulateTrade (backtest-learn-loop.ts, lines 323-357) *)

(* Program constants: the scan limit of line 336, the ATR multiple of the   *)
(* stop (line 331), the reward multiple of the target (line 333) and the    *)
(* notional of the P&L (line 348).                                          *)
ScanLimit == 100
StopAtrMultiple == 2
RewardMultiple == 3
Notional == 1000

(* Mutation of CandleExit: the target is checked before the stop *)
CandleExit_TargetFirst(candle, isLong, stopLoss, tp2) ==
    IF isLong /\ RGe(RInt(candle.high), tp2) THEN <<tp2>>
    ELSE IF ~isLong /\ RLe(RInt(candle.low), tp2) THEN <<tp2>>
    ELSE IF isLong /\ RLe(RInt(candle.low), stopLoss) THEN <<stopLoss>>
    ELSE IF ~isLong /\ RGe(RInt(candle.high), stopLoss) THEN <<stopLoss>>
    ELSE <<>>

(* Lines 339-344, the four checks on one candle: <<the exit price>> if the  *)
(* candle ends the scan, <<>> if it does not.                               *)
CandleExit(candle, isLong, stopLoss, tp2) ==
    IF isLong /\ RLe(RInt(candle.low), stopLoss) THEN <<stopLoss>>
    ELSE IF ~isLong /\ RGe(RInt(candle.high), stopLoss) THEN <<stopLoss>>
    ELSE IF isLong /\ RGe(RInt(candle.high), tp2) THEN <<tp2>>
    ELSE IF ~isLong /\ RLe(RInt(candle.low), tp2) THEN <<tp2>>
    ELSE <<>>

(* Lines 336-345, the for loop from index i to below limit: <<the exit      *)
(* price>> of the first candle that ends the scan, <<>> if none does.  The  *)
(* range is split in halves, the first half deciding before the second.    *)
RECURSIVE FirstExit(_, _, _, _, _, _)
FirstExit(cs, i, limit, isLong, stopLoss, tp2) ==
    IF i >= limit THEN <<>>
    ELSE IF i + 1 = limit THEN CandleExit(At(cs, i), isLong, stopLoss, tp2)
    ELSE LET first == FirstExit(cs, i, (i + limit) \div 2, isLong, stopLoss, tp2)
         IN  IF first # <<>> THEN first
             ELSE FirstExit(cs, (i + limit) \div 2, limit, isLong, stopLoss, tp2)

(* Lines 334-345: the final exitPrice, exitPrice being its initial value *)
ScanExit(cs, i, limit, isLong, stopLoss, tp2, exitPrice) ==
    LET exit == FirstExit(cs, i, limit, isLong, stopLoss, tp2)
    IN  IF exit # <<>> THEN exit[1] ELSE exitPrice

(* Lines 347-356: the result, from the exit price.  The locals stopLoss,    *)
(* tp2 and exitPrice are kept with it.                                      *)
TradeResult(isLong, entryPrice, stopLoss, tp2, exitPrice) ==
    LET priceDiff == IF isLong THEN RSub(exitPrice, entryPrice)
                     ELSE RSub(entryPrice, exitPrice)
        pnl == RMul(RInt(Notional), RDiv(priceDiff, entryPrice))
    IN  [pnl |-> pnl,
         outcome |-> IF RGt(pnl, RInt(0)) THEN "WIN" ELSE "LOSS",
         exit_reason |-> IF exitPrice = stopLoss THEN "SL" ELSE "TP",
         stopLoss |-> stopLoss, tp2 |-> tp2, exitPrice |-> exitPrice]

(* Lines 330-333: the stop, from the entry and the ATR *)
StopLoss(isLong, entryPrice, atr) ==
    IF isLong THEN RSub(entryPrice, RMul(atr, RInt(StopAtrMultiple)))
    ELSE RAdd(entryPrice, RMul(atr, RInt(StopAtrMultiple)))

(* Lines 332-333: the target, from the entry and the stop *)
TakeProfit(isLong, entryPrice, stopLoss) ==
    IF isLong
    THEN RAdd(entryPrice, RMul(RAbs(RSub(entryPrice, stopLoss)), RInt(RewardMultiple)))
    ELSE RSub(entryPrice, RMul(RAbs(RSub(entryPrice, stopLoss)), RInt(RewardMultiple)))

(* Line 330: analysis.atr || (candles[startIndex].high - candles[startIndex].low) *)
AtrOrRange(cs, startIndex, analysisAtr) ==
    IF Truthy(analysisAtr) THEN analysisAtr
    ELSE RInt(At(cs, startIndex).high - At(cs, startIndex).low)

(* simulateTrade(candles, startIndex, entryPrice, direction, analysis) *)
simulateTrade(cs, startIndex, entryPrice, direction, analysisAtr) ==
    LET isLong == direction = "long"
        atr == AtrOrRange(cs, startIndex, analysisAtr)
        stopLoss == StopLoss(isLong, entryPrice, atr)
        tp2 == TakeProfit(isLong, entryPrice, stopLoss)
    IN  TradeResult(isLong, entryPrice, stopLoss, tp2,
            ScanExit(cs, startIndex + 1, Min2(startIndex + ScanLimit, Len(cs)),
                     isLong, stopLoss, tp2, RInt(At(cs, startIndex).close)))

(* Candle arrays for the simulation: quiet candles around 100, with at most *)
(* two event candles.  base "quiet": every candle closes at 100; "wave":    *)
(* candles at odd indexes close at 101; "halt": no range at all (open =     *)
(* high = low = close = 100).                                               *)
ShortLen == 52
LongLen == 102

Candle(k, open, high, low, close) ==
    [timestamp |-> k, open |-> open, high |-> high, low |-> low, close |-> close]

BaseCandle(base, k) ==
    IF base = "halt" THEN Candle(k, 100, 100, 100, 100)
    ELSE IF base = "wave" /\ k % 2 = 1 THEN Candle(k, 100, 101, 99, 101)
    ELSE Candle(k, 100, 101, 99, 100)

(* Event candles: a spike down, a spike up, a candle spiking both ways, and *)
(* candles that open and stay beyond the levels (gaps)                      *)
EventCandle(kind, k) ==
    CASE kind = "down" -> Candle(k, 100, 101, 80, 100)
      [] kind = "up" -> Candle(k, 100, 120, 99, 100)
      [] kind = "both" -> Candle(k, 100, 120, 80, 100)
      [] kind = "gapdown" -> Candle(k, 85, 86, 84, 85)
      [] kind = "gapup" -> Candle(k, 115, 116, 114, 115)

NoEvent == [at |-> -1, kind |-> "none"]

FirstEvents ==
    {NoEvent} \cup [at : {1, 2, ScanLimit - 1, ScanLimit},
                    kind : {"down", "up", "both", "gapdown", "gapup"}]

SecondEvents == {NoEvent, [at |-> 3, kind |-> "down"], [at |-> 3, kind |-> "up"]}

MakeCandles(len, base, e1, e2) ==
    Tabulate([p \in 1..len |->
        IF p - 1 = e1.at THEN EventCandle(e1.kind, p - 1)
        ELSE IF p - 1 = e2.at THEN EventCandle(e2.kind, p - 1)
        ELSE BaseCandle(base, p - 1)])

SimCandles ==
    {MakeCandles(len, base, e1, e2) :
        len \in {ShortLen, LongLen}, base \in {"quiet", "wave", "halt"},
        e1 \in FirstEvents, e2 \in SecondEvents}

(* The values of analysis.atr tried: null, and ATRs of 1 and 3 *)
SimAtrs == {Null, RInt(1), RInt(3)}

SimInit == pc = "simulate" /\ Constructed /\ candles \in SimCandles

(* this.simulateTrade(candles, i, currentCandle.close, direction, analysis) *)
(* as extractTradesForSymbol calls it: the entry price is the close of the  *)
(* entry candle and at least 50 candles follow the entry.                   *)
SimulateTrade(startIndex, direction, analysisAtr) ==
    /\ pc = "simulate"
    /\ startIndex < Len(candles) - 50
    /\ lastCall' = [op |-> "simulateTrade", startIndex |-> startIndex,
                    direction |-> direction, atr |-> analysisAtr,
                    result |-> simulateTrade(candles, startIndex,
                                             RInt(At(candles, startIndex).close),
                                             direction, analysisAtr)]
    /\ UNCHANGED <<pc, allTrades, model, trainCalls, lastPredict, prevTrainSet,
                   minScore, candles, evalIndex, extracted, scored>>
    /\ UNCHANGED loopVars
    /\ UNCHANGED extractVars

SimNext ==
    \E startIndex \in {0, 1}, direction \in {"long", "short"}, analysisAtr \in SimAtrs :
        SimulateTrade(startIndex, direction, analysisAtr)

SpecSim == SimInit /\ [][SimNext]_vars

-----------------------------------------------------------------------------
(* Properties of simulateTrade, stated on the last call *)

Simulated == lastCall.op = "simulateTrade"

(* Candle i touches the stop / the target of the last call *)
TouchesStop(i) ==
    IF lastCall.direction = "long"
    THEN RLe(RInt(At(candles, i).low), lastCall.result.stopLoss)
    ELSE RGe(RInt(At(candles, i).high), lastCall.result.stopLoss)

TouchesTarget(i) ==
    IF lastCall.direction = "long"
    THEN RGe(RInt(At(candles, i).high), lastCall.result.tp2)
    ELSE RLe(RInt(At(candles, i).low), lastCall.result.tp2)

(* The indexes the for loop of the last call visits if nothing stops it *)
Scanned ==
    (lastCall.startIndex + 1)
        .. (Min2(lastCall.startIndex + ScanLimit, Len(candles)) - 1)

TouchedIn(window) == {i \in window : TouchesStop(i) \/ TouchesTarget(i)}

(* C13: if a scanned candle touches the stop or the target, the exit is at   *)
(* the first such candle in index order: at the stop if that candle touches *)
(* the stop (also when it touches the target too), at the target otherwise. *)
C13_FirstTouchStopFirst ==
    (Simulated /\ TouchedIn(Scanned) # {})
        => IF TouchesStop(SetMin(TouchedIn(Scanned)))
           THEN /\ lastCall.result.exitPrice = lastCall.result.stopLoss
                /\ lastCall.result.exit_reason = "SL"
           ELSE lastCall.result.exitPrice = lastCall.result.tp2

C13_Witness ==
    /\ Simulated
    /\ Cardinality(TouchedIn(Scanned)) >= 2
    /\ SetMin(TouchedIn(Scanned)) > lastCall.startIndex + 1
    /\ TouchesStop(SetMin(TouchedIn(Scanned)))
    /\ TouchesTarget(SetMin(TouchedIn(Scanned)))
    /\ lastCall.result.stopLoss # lastCall.result.tp2
    /\ lastCall.result.exitPrice = lastCall.result.stopLoss

(* The 100 candles after the entry, cut at the end of the array *)
HundredAfter ==
    (lastCall.startIndex + 1)
        .. Min2(lastCall.startIndex + 100, Len(candles) - 1)

(* C14: the simulation scans the candles entry+1 .. entry+100 (cut at the    *)
(* end of the array): if one of them touches the stop or the target, the    *)
(* exit is at the stop or target of the first that does, also when that is  *)
(* the 100th candle after the entry.                                        *)
C14_ScansHundred ==
    (Simulated /\ TouchedIn(HundredAfter) # {})
        => lastCall.result.exitPrice =
              IF TouchesStop(SetMin(TouchedIn(HundredAfter)))
              THEN lastCall.result.stopLoss ELSE lastCall.result.tp2

(* The P&L of the last call's trade had it been closed at exitPrice *)
PnlAt(exitPrice) ==
    RMul(RInt(Notional),
         RDiv(IF lastCall.direction = "long"
              THEN RSub(exitPrice, RInt(At(candles, lastCall.startIndex).close))
              ELSE RSub(RInt(At(candles, lastCall.startIndex).close), exitPrice),
              RInt(At(candles, lastCall.startIndex).close)))

(* C15: if no scanned candle touches the stop or the target, the exit price  *)
(* is the close of the last scanned candle, the P&L is that of a trade      *)
(* closed at that price and the outcome is WIN exactly when it is positive. *)
C15_TimeoutAtLastClose ==
    (Simulated /\ TouchedIn(Scanned) = {})
        => /\ lastCall.result.exitPrice = RInt(At(candles, SetMax(Scanned)).close)
           /\ lastCall.result.pnl = PnlAt(RInt(At(candles, SetMax(Scanned)).close))
           /\ lastCall.result.outcome = "WIN"
                 <=> RGt(PnlAt(RInt(At(candles, SetMax(Scanned)).close)), RInt(0))

(* C16: when the candle right after the entry touches or lies beyond the     *)
(* stop, the outcome is LOSS, the exit reason "SL" and the P&L negative.    *)
C16_ImmediateStop ==
    (Simulated /\ TouchesStop(lastCall.startIndex + 1))
        => /\ lastCall.result.outcome = "LOSS"
           /\ lastCall.result.exit_reason = "SL"
           /\ RLt(lastCall.result.pnl, RInt(0))

-----------------------------------------------------------------------------
(* SMCIndicators (src/unnamed/part_000).  Arrays are sequences.  A loop of  *)
(* the code over a long index range is evaluated range by range, the range  *)
(* split in halves (the passes are evaluated in index order all the same).  *)
(* vwap is not modelled: nothing modelled here reads it.                    *)

(* candles.map(c => c.close) *)
Closes(cs) == Tabulate([k \in DOMAIN cs |-> cs[k].close])

(* data[from] + ... + data[to], 0-based *)
RECURSIVE SumRange(_, _, _)
SumRange(data, from, to) ==
    IF from > to THEN 0
    ELSE IF from = to THEN data[from + 1]
    ELSE SumRange(data, from, (from + to) \div 2)
         + SumRange(data, ((from + to) \div 2) + 1, to)

(* sma(data, period): one average per i from period - 1 to data.length - 1 *)
SmaLength(data, period) == IF Len(data) < period THEN 0 ELSE Len(data) - period + 1

sma(data, period) ==
    [j \in 1..SmaLength(data, period) |->
        Rat(SumRange(data, j - 1, j + period - 2), period)]

(* Entry k (0-based) of an array; undefined (here NaN: every comparison     *)
(* with it is false) outside of the array                                   *)
Entry(array, length, k) == IF k >= 0 /\ k < length THEN array[k + 1] ELSE NaN

(* Mutation of getTrend: the long average is over 100 closes, not 200 *)
getTrend_ShortAverage(cs) ==
    IF Len(cs) < 100 THEN "null"
    ELSE LET closes == Closes(cs)
             lastSMA50 == Entry(sma(closes, 50), SmaLength(closes, 50),
                                SmaLength(closes, 50) - 1)
             lastSMA200 == Entry(sma(closes, 100), SmaLength(closes, 100),
                                 SmaLength(closes, 100) - 1)
         IN  IF RGt(lastSMA50, lastSMA200) THEN "up"
             ELSE IF RLt(lastSMA50, lastSMA200) THEN "down"
             ELSE "null"

(* getTrend *)
getTrend(cs) ==
    IF Len(cs) < 200 THEN "null"
    ELSE LET closes == Closes(cs)
             lastSMA50 == Entry(sma(closes, 50), SmaLength(closes, 50),
                                SmaLength(closes, 50) - 1)
             lastSMA200 == Entry(sma(closes, 200), SmaLength(closes, 200),
                                 SmaLength(closes, 200) - 1)
         IN  IF RGt(lastSMA50, lastSMA200) THEN "up"
             ELSE IF RLt(lastSMA50, lastSMA200) THEN "down"
             ELSE "null"

(* getBOS *)
getBOS(cs) ==
    IF Len(cs) < 50 THEN "null"
    ELSE LET closes == Closes(cs)
             prevSMA50 == Entry(sma(closes, 50), SmaLength(closes, 50),
                                SmaLength(closes, 50) - 2)
             lastSMA50 == Entry(sma(closes, 50), SmaLength(closes, 50),
                                SmaLength(closes, 50) - 1)
         IN  IF RGt(lastSMA50, prevSMA50) THEN "up"
             ELSE IF RLt(lastSMA50, prevSMA50) THEN "down"
             ELSE "null"

(* Lines 96-105: the sums of the gains and of the losses over the changes   *)
(* slice[j] - slice[j - 1], j from 1, of slice = closes[from .. to]         *)
RECURSIVE GainSum(_, _, _)
GainSum(closes, from, to) ==
    IF from >= to THEN 0
    ELSE (IF closes[from + 2] - closes[from + 1] >= 0
          THEN closes[from + 2] - closes[from + 1] ELSE 0)
         + GainSum(closes, from + 1, to)

(* Mutation of LossSum: the losses are summed with their sign *)
RECURSIVE LossSum_Signed(_, _, _)
LossSum_Signed(closes, from, to) ==
    IF from >= to THEN 0
    ELSE (IF closes[from + 2] - closes[from + 1] >= 0
          THEN 0 ELSE closes[from + 2] - closes[from + 1])
         + LossSum_Signed(closes, from + 1, to)

RECURSIVE LossSum(_, _, _)
LossSum(closes, from, to) ==
    IF from >= to THEN 0
    ELSE (IF closes[from + 2] - closes[from + 1] >= 0
          THEN 0 ELSE Abs(closes[from + 2] - closes[from + 1]))
         + LossSum(closes, from + 1, to)

(* Lines 107-115: the RSI from the two sums *)
RsiValue(gainSum, lossSum, period) ==
    IF Rat(lossSum, period) = RInt(0) THEN RInt(100)
    ELSE RSub(RInt(100),
              RDiv(RInt(100),
                   RAdd(RInt(1), RDiv(Rat(gainSum, period), Rat(lossSum, period)))))

(* rsi(candles, period): one value per i from period to closes.length - 1,  *)
(* over slice = closes.slice(i - period, i)                                 *)
RsiLength(cs, period) == IF Len(cs) <= period THEN 0 ELSE Len(cs) - period

rsi(cs, period) ==
    [j \in 1..RsiLength(cs, period) |->
        RsiValue(GainSum(Closes(cs), j - 1, j + period - 2),
                 LossSum(Closes(cs), j - 1, j + period - 2), period)]

(* Lines 132-136: the true range of a candle, as the code computes it *)
TrueRange(c) ==
    LET a == c.high - c.low
        b == Abs(c.high - c.close)
        d == Abs(c.low - c.close)
    IN  IF a >= b /\ a >= d THEN a ELSE IF b >= d THEN b ELSE d

RECURSIVE TrueRangeSum(_, _, _)
TrueRangeSum(cs, from, to) ==
    IF from > to THEN 0 ELSE TrueRange(At(cs, from)) + TrueRangeSum(cs, from + 1, to)

(* atr(candles, period): one value per i from period - 1 *)
AtrLength(cs, period) == IF Len(cs) < period THEN 0 ELSE Len(cs) - period + 1

atr(cs, period) ==
    [j \in 1..AtrLength(cs, period) |->
        Rat(TrueRangeSum(cs, j - 1, j + period - 2), period)]

(* ema.  The code computes the average in doubles; here it is computed in   *)
(* fixed point, in units of 1 / EmaScale, each step rounded down.  The two  *)
(* differ by less than 0.002 (the rounding of at most 1 unit per step       *)
(* decays with the average's weight, 2 / (period + 1)), and are equal on    *)
(* constant data.                                                           *)
EmaScale == 100000

(* Lines 76-79: the passes of the loop for the indexes from .. to, ema in    *)
(* fixed point.  The range is halved, and the average after the first half  *)
(* is computed (it is a number, never below 0 on prices) before the second  *)
(* half starts from it.                                                     *)
RECURSIVE EmaOver(_, _, _, _, _)
EmaOver(data, period, from, to, ema) ==
    IF from > to THEN ema
    ELSE IF from = to
    THEN ema + (((data[from + 1] * EmaScale - ema) * 2) \div (period + 1))
    ELSE LET half == EmaOver(data, period, from, (from + to) \div 2, ema)
         IN  IF half \in Int
             THEN EmaOver(data, period, ((from + to) \div 2) + 1, to, half)
             ELSE half

(* Line 73: the seed, the sum of data.slice(0, period) over period *)
EmaSeed(data, period) ==
    LET sum == SumRange(data, 0, Min2(period, Len(data)) - 1)
    IN  (sum \div period) * EmaScale + (((sum % period) * EmaScale) \div period)

(* The last entry of ema(data, period), in fixed point *)
EmaLast(data, period) ==
    EmaOver(data, period, period, Len(data) - 1, EmaSeed(data, period))

(* Infinity: the quotient of a positive number by 0 *)
Infinity == <<1, 0>>

(* Mutation of IsStrongBody: the body only has to exceed the average *)
IsStrongBody_NoFactor(bodySize, bodySum, lookback) ==
    RGt(RInt(bodySize), Rat(bodySum, lookback))

(* bodySize > avgBody * 1.5, avgBody being bodySum / lookback *)
IsStrongBody(bodySize, bodySum, lookback) ==
    RGt(RInt(bodySize), RMul(Rat(bodySum, lookback), <<3, 2>>))

RECURSIVE BodySum(_, _, _)
BodySum(cs, from, to) ==
    IF from > to THEN 0
    ELSE Abs(At(cs, from).close - At(cs, from).open) + BodySum(cs, from + 1, to)

(* The order block pushed for candle i *)
OrderBlock(cs, i, type, bodySize, bodySum, lookback) ==
    [index |-> i, timestamp |-> At(cs, i).timestamp, open |-> At(cs, i).open,
     high |-> At(cs, i).high, low |-> At(cs, i).low, close |-> At(cs, i).close,
     type |-> type,
     strength |-> IF bodySum = 0 THEN Infinity
                  ELSE RDiv(RInt(bodySize), Rat(bodySum, lookback))]

(* Lines 172-212: what one pass of the loop of detectOrderBlocks pushes *)
OrderBlocksAt(cs, i, lookback) ==
    LET candle == At(cs, i)
        nextCandle == At(cs, i + 1)
        nextNextCandle == At(cs, i + 2)
        bodySize == Abs(candle.close - candle.open)
        bodySum == BodySum(cs, i - lookback, i - 1)
        strong == IsStrongBody(bodySize, bodySum, lookback)
    IN  (IF /\ candle.close < candle.open /\ strong
            /\ nextCandle.close > nextCandle.open
            /\ nextNextCandle.close > nextNextCandle.open
         THEN <<OrderBlock(cs, i, "bull", bodySize, bodySum, lookback)>> ELSE <<>>)
        \o
        (IF /\ candle.close > candle.open /\ strong
            /\ nextCandle.close < nextCandle.open
            /\ nextNextCandle.close < nextNextCandle.open
         THEN <<OrderBlock(cs, i, "bear", bodySize, bodySum, lookback)>> ELSE <<>>)

(* What the passes of the loop for the indexes from .. to push *)
RECURSIVE OrderBlocksIn(_, _, _, _)
OrderBlocksIn(cs, from, to, lookback) ==
    IF from > to THEN <<>>
    ELSE IF from = to THEN OrderBlocksAt(cs, from, lookback)
    ELSE OrderBlocksIn(cs, from, (from + to) \div 2, lookback)
         \o OrderBlocksIn(cs, ((from + to) \div 2) + 1, to, lookback)

(* detectOrderBlocks(candles, lookback): the loop from lookback to below    *)
(* candles.length - 2                                                       *)
detectOrderBlocks(cs, lookback) == OrderBlocksIn(cs, lookback, Len(cs) - 3, lookback)

(* Lines 225-251: what one pass of the loop of detectFVG pushes *)
FVGsAt(cs, i) ==
    LET prev == At(cs, i - 1)
        next == At(cs, i + 1)
    IN  (IF prev.high < next.low
         THEN <<[index |-> i, from |-> prev.high, to |-> next.low, type |-> "bull",
                 size |-> next.low - prev.high]>> ELSE <<>>)
        \o
        (IF prev.low > next.high
         THEN <<[index |-> i, from |-> next.high, to |-> prev.low, type |-> "bear",
                 size |-> prev.low - next.high]>> ELSE <<>>)

(* What the passes of the loop for the indexes from .. to push *)
RECURSIVE FVGsIn(_, _, _)
FVGsIn(cs, from, to) ==
    IF from > to THEN <<>>
    ELSE IF from = to THEN FVGsAt(cs, from)
    ELSE FVGsIn(cs, from, (from + to) \div 2)
         \o FVGsIn(cs, ((from + to) \div 2) + 1, to)

(* detectFVG(candles): the loop from 1 to below candles.length - 1 *)
detectFVG(cs) == FVGsIn(cs, 1, Len(cs) - 2)

(* Lines 266-267 and 277-278: candle i is a swing high / low *)
IsSwingHigh(cs, i, swingPeriod) ==
    \A k \in (i - swingPeriod)..(i + swingPeriod) : At(cs, k).high <= At(cs, i).high

IsSwingLow(cs, i, swingPeriod) ==
    \A k \in (i - swingPeriod)..(i + swingPeriod) : At(cs, k).low >= At(cs, i).low

(* detectLiquidity(candles, swingPeriod): the zones are kept as the indexes *)
(* (lastTouch) of the swing candles; their price is the candle's high / low *)
(* and touches is 0.                                                        *)
detectLiquidity(cs, swingPeriod) ==
    [highs |-> {i \in swingPeriod..(Len(cs) - swingPeriod - 1) :
                   IsSwingHigh(cs, i, swingPeriod)},
     lows |-> {i \in swingPeriod..(Len(cs) - swingPeriod - 1) :
                  IsSwingLow(cs, i, swingPeriod)}]

(* x[x.length - 1] || null, for the arrays of rationals *)
LastOrNull(array, length) ==
    IF length > 0 /\ Truthy(array[length]) THEN array[length] ELSE Null

(* analyze(candles).  ema50 and ema200 are in fixed point, 0 for null.      *)
analyze(cs) ==
    [trend |-> getTrend(cs),
     bos |-> getBOS(cs),
     ema50 |-> EmaLast(Closes(cs), 50),
     ema200 |-> EmaLast(Closes(cs), 200),
     rsi |-> LastOrNull(rsi(cs, 14), RsiLength(cs, 14)),
     orderBlocks |-> detectOrderBlocks(cs, 10),
     fvg |-> detectFVG(cs),
     liquidityZones |-> detectLiquidity(cs, 5),
     atr |-> LastOrNull(atr(cs, 14), AtrLength(cs, 14))]

-----------------------------------------------------------------------------
(* UnifiedScoring.calculateConfluence (backtest-learn-loop.ts, 578-741).    *)
(* Prices are integers and the factors 0.95, 1.05, 0.98, 1.02, 0.05 and     *)
(* 0.03 are applied exactly; the points are rationals.                      *)

(* Lines 283-291: the weights extractTradesForSymbol passes *)
Weights ==
    [trend_structure |-> 40, order_blocks |-> 30, fvgs |-> 20, ema_alignment |-> 15,
     liquidity |-> 10, mtf_bonus |-> 35, rsi_penalty |-> 15]

(* Mutation of Bias: a single down is looked for before a single up *)
Bias_DownFirst(trend, bos) ==
    IF trend = "up" /\ bos = "up" THEN "bullish"
    ELSE IF trend = "down" /\ bos = "down" THEN "bearish"
    ELSE IF trend = "down" \/ bos = "down" THEN "bearish"
    ELSE IF trend = "up" \/ bos = "up" THEN "bullish"
    ELSE "neutral"

(* Lines 588-597 *)
Bias(trend, bos) ==
    IF trend = "up" /\ bos = "up" THEN "bullish"
    ELSE IF trend = "down" /\ bos = "down" THEN "bearish"
    ELSE IF trend = "up" \/ bos = "up" THEN "bullish"
    ELSE IF trend = "down" \/ bos = "down" THEN "bearish"
    ELSE "neutral"

(* Lines 600-612 *)
TrendStructurePoints(trend, bos, weights) ==
    IF trend # "null" /\ bos # "null" /\ trend = bos THEN RInt(weights.trend_structure)
    ELSE IF trend # "null" THEN Rat(weights.trend_structure * 5, 10)
    ELSE IF bos # "null" THEN Rat(weights.trend_structure * 3, 10)
    ELSE RInt(0)

ObHigh(ob) == IF ob.open >= ob.close THEN ob.open ELSE ob.close
ObLow(ob) == IF ob.open <= ob.close THEN ob.open ELSE ob.close

(* Lines 615-619: the indexes of the order blocks within 5% of the price *)
RelevantOBs(obs, currentPrice) ==
    {b \in DOMAIN obs : /\ currentPrice * 100 >= ObLow(obs[b]) * 95
                        /\ currentPrice * 100 <= ObHigh(obs[b]) * 105}

OBsOfType(obs, currentPrice, type) ==
    {b \in RelevantOBs(obs, currentPrice) : obs[b].type = type}

(* Lines 625-630 and 634-638: some block of the bias's type is nearer than 5% *)
NearOB(obs, currentPrice, type) ==
    \E b \in OBsOfType(obs, currentPrice, type) :
        Abs(currentPrice - (IF type = "bull" THEN ObLow(obs[b]) ELSE ObHigh(obs[b]))) * 100
            < 5 * currentPrice

(* Lines 624-647 *)
OrderBlockPoints(obs, currentPrice, bias, weights) ==
    IF bias = "bullish" /\ OBsOfType(obs, currentPrice, "bull") # {}
    THEN IF NearOB(obs, currentPrice, "bull") THEN RInt(weights.order_blocks)
         ELSE Rat(weights.order_blocks * 6, 10)
    ELSE IF bias = "bearish" /\ OBsOfType(obs, currentPrice, "bear") # {}
    THEN IF NearOB(obs, currentPrice, "bear") THEN RInt(weights.order_blocks)
         ELSE Rat(weights.order_blocks * 6, 10)
    ELSE IF RelevantOBs(obs, currentPrice) # {} THEN Rat(weights.order_blocks * 3, 10)
    ELSE RInt(0)

(* Lines 651-653: the indexes of the gaps within 2% of the price *)
RelevantFVGs(fvg, currentPrice) ==
    {g \in DOMAIN fvg : /\ currentPrice * 100 >= fvg[g].from * 98
                        /\ currentPrice * 100 <= fvg[g].to * 102}

FVGsOfType(fvg, currentPrice, type) ==
    {g \in RelevantFVGs(fvg, currentPrice) : fvg[g].type = type}

(* Lines 659-662 and 666-669: some gap of the bias's type is nearer than 3% *)
NearFVG(fvg, currentPrice, type) ==
    \E g \in FVGsOfType(fvg, currentPrice, type) :
        Abs(currentPrice - (IF type = "bull" THEN fvg[g].from ELSE fvg[g].to)) * 100
            < 3 * currentPrice

(* Lines 658-678 *)
FvgPoints(fvg, currentPrice, bias, weights) ==
    IF bias = "bullish" /\ FVGsOfType(fvg, currentPrice, "bull") # {}
    THEN IF NearFVG(fvg, currentPrice, "bull") THEN RInt(weights.fvgs)
         ELSE Rat(weights.fvgs * 5, 10)
    ELSE IF bias = "bearish" /\ FVGsOfType(fvg, currentPrice, "bear") # {}
    THEN IF NearFVG(fvg, currentPrice, "bear") THEN RInt(weights.fvgs)
         ELSE Rat(weights.fvgs * 5, 10)
    ELSE IF RelevantFVGs(fvg, currentPrice) # {} THEN RInt(weights.fvgs)
    ELSE RInt(0)

(* Lines 682-694: ema50 and ema200 in fixed point, 0 being falsy *)
EmaPoints(ema50, ema200, bias, weights) ==
    IF ema50 # 0 /\ ema200 # 0
    THEN IF \/ bias = "bullish" /\ ema50 > ema200
            \/ bias = "bearish" /\ ~(ema50 > ema200)
         THEN RInt(weights.ema_alignment)
         ELSE RInt(-5)
    ELSE RInt(0)

(* Lines 698-706 *)
LiquidityPoints(liquidityZones, weights) ==
    IF liquidityZones.highs # {} \/ liquidityZones.lows # {}
    THEN RInt(weights.liquidity) ELSE RInt(0)

(* Lines 714-734: the points are added to the total *)
RsiPoints(rsiValue, bias, weights) ==
    IF Truthy(rsiValue)
    THEN IF RGt(rsiValue, RInt(70)) THEN RInt(weights.rsi_penalty)
         ELSE IF RLt(rsiValue, RInt(30))
         THEN IF bias = "bullish" THEN Rat(weights.rsi_penalty * 5, 10)
              ELSE RInt(weights.rsi_penalty)
         ELSE IF RGe(rsiValue, RInt(40)) /\ RLe(rsiValue, RInt(60)) THEN RInt(5)
         ELSE RInt(0)
    ELSE RInt(0)

(* totalScore at line 736 *)
TotalScore(analysis, currentPrice, bias, weights) ==
    RAdd(TrendStructurePoints(analysis.trend, analysis.bos, weights),
    RAdd(OrderBlockPoints(analysis.orderBlocks, currentPrice, bias, weights),
    RAdd(FvgPoints(analysis.fvg, currentPrice, bias, weights),
    RAdd(EmaPoints(analysis.ema50, analysis.ema200, bias, weights),
    RAdd(LiquidityPoints(analysis.liquidityZones, weights),
    RAdd(RInt(weights.mtf_bonus),
         RsiPoints(analysis.rsi, bias, weights)))))))

(* Math.max(0, totalScore) *)
ClampScore(totalScore) ==
    IF RLt(totalScore, RInt(0)) THEN RInt(0) ELSE totalScore

(* calculateConfluence(analysis, currentPrice, weights) *)
calculateConfluence(analysis, currentPrice, weights) ==
    [score |-> ClampScore(TotalScore(analysis, currentPrice,
                                     Bias(analysis.trend, analysis.bos), weights)),
     bias |-> Bias(analysis.trend, analysis.bos)]

-----------------------------------------------------------------------------
(* FeatureExtractor.checkMTFAlignment (trade-features.ts, 367-418) *)

(* getTrendForPeriod(candles, period): percentChange > 0.5 is              *)
(* (lastPrice - firstPrice) * 200 > firstPrice, prices being positive       *)
getTrendForPeriod(cs, period) ==
    IF Len(cs) < period THEN "neutral"
    ELSE IF (cs[Len(cs)].close - cs[Len(cs) - period + 1].close) * 200
                > cs[Len(cs) - period + 1].close
    THEN "up"
    ELSE IF (cs[Len(cs)].close - cs[Len(cs) - period + 1].close) * 200
                < 0 - cs[Len(cs) - period + 1].close
    THEN "down"
    ELSE "neutral"

(* Lines 386-388 and 395-397 *)
IsAligned(periodTrend, direction) ==
    IF direction = "long" THEN periodTrend = "up" \/ periodTrend = "neutral"
    ELSE periodTrend = "down" \/ periodTrend = "neutral"

(* [shortAligned, mediumAligned, longAligned].filter(Boolean).length *)
AlignedCount(cs, direction) ==
    (IF IsAligned(getTrendForPeriod(cs, 20), direction) THEN 1 ELSE 0)
    + (IF IsAligned(getTrendForPeriod(cs, 50), direction) THEN 1 ELSE 0)
    + (IF IsAligned(getTrendForPeriod(cs, 100), direction) THEN 1 ELSE 0)

(* Mutation of EnoughAligned: the three periods have to be aligned *)
EnoughAligned_All(count) == count >= 3

(* Lines 391 and 400 *)
EnoughAligned(count) == count >= 2

(* checkMTFAlignment(trend_direction, direction, currentCandle,             *)
(* historicalCandles); the first and the third argument are not read        *)
checkMTFAlignment(direction, historicalCandles) ==
    IF Len(historicalCandles) < 50 THEN TRUE
    ELSE EnoughAligned(AlignedCount(historicalCandles, direction))

-----------------------------------------------------------------------------
(* The indicators called on candle arrays of several shapes and lengths *)

(* Candle k of a shape: the candles of a shape other than "flat" and "doji" *)
(* open at the close of the candle before.                                  *)
(*   flat     no movement at all                                            *)
(*   rising   one up per candle; falling: one down per candle               *)
(*   zigzag   up 3, down 2, down 1                                          *)
(*   turn     30 candles up, 30 down, then zigzag                           *)
(*   blocks   a cycle of 8 candles with a bearish body of `big` followed by *)
(*            two bullish candles, and the mirror image                     *)
(*   doji     candles without body, and every 16 candles a bearish body     *)
(*            followed by two bullish ones                                  *)
(*   weak     down 4, up 1, up 3: the bearish body is above the average     *)
(*            body, but below 1.5 times it                                  *)
(*   halted   180 candles up, then no movement at all                       *)
(*   gaps     candles of range 2 that alternate between 100 and 110, and    *)
(*            stay at 110 after candle 40                                   *)
Body(k, open, close) ==
    Candle(k, open, (IF open > close THEN open ELSE close) + 1,
           (IF open < close THEN open ELSE close) - 1, close)

BlockCandle(k, big) ==
    CASE k % 8 = 0 -> Body(k, 100, 102)
      [] k % 8 = 1 -> Body(k, 102, 100)
      [] k % 8 = 2 -> Body(k, 100, 100 - big)
      [] k % 8 = 3 -> Body(k, 100 - big, 97)
      [] k % 8 = 4 -> Body(k, 97, 100)
      [] k % 8 = 5 -> Body(k, 100, 100 + big)
      [] k % 8 = 6 -> Body(k, 100 + big, 103)
      [] k % 8 = 7 -> Body(k, 103, 100)

ZigzagClose(k) == 100 + (CASE k % 3 = 0 -> 0 [] k % 3 = 1 -> 3 [] k % 3 = 2 -> 1)

ShapeCandle(shape, k) ==
    CASE shape = "flat" -> Candle(k, 100, 100, 100, 100)
      [] shape = "rising" -> Body(k, 99 + k, 100 + k)
      [] shape = "falling" -> Body(k, 601 - k, 600 - k)
      [] shape = "zigzag" -> Body(k, ZigzagClose(k + 2), ZigzagClose(k))
      [] shape = "turn" ->
            IF k < 30 THEN Body(k, 99 + k, 100 + k)
            ELSE IF k < 60 THEN Body(k, 130 - (k - 30), 129 - (k - 30))
            ELSE Body(k, ZigzagClose(k + 2), ZigzagClose(k))
      [] shape = "blocks6" -> BlockCandle(k, 6)
      [] shape = "blocks5" -> BlockCandle(k, 5)
      [] shape = "blocks4" -> BlockCandle(k, 4)
      [] shape = "doji" ->
            IF k % 16 = 12 THEN Body(k, 100, 94)
            ELSE IF k % 16 = 13 THEN Body(k, 94, 97)
            ELSE IF k % 16 = 14 THEN Body(k, 97, 100)
            ELSE Candle(k, 100, 101, 99, 100)
      [] shape = "weak" ->
            IF k % 3 = 0 THEN Body(k, 100, 96)
            ELSE IF k % 3 = 1 THEN Body(k, 96, 97)
            ELSE Body(k, 97, 100)
      [] shape = "gaps" ->
            IF k % 2 = 0 /\ k < 40 THEN Candle(k, 100, 101, 99, 100)
            ELSE Candle(k, 110, 111, 109, 110)
      [] shape = "halted" ->
            IF k < 180 THEN Body(k, 99 + k, 100 + k) ELSE Candle(k, 279, 279, 279, 279)

Shapes == {"flat", "rising", "falling", "zigzag", "turn", "blocks6", "blocks5",
           "blocks4", "doji", "weak", "gaps"}

ShapeCandles(shape, len) == Tabulate([p \in 1..len |-> ShapeCandle(shape, p - 1)])

(* The lengths tried: around the periods 14, 50 and 200 *)
MaxIndLen == 210
IndLens == {0, 1, 13, 14, 15, 16, 30, 49, 50, 51, 80, 199, 200, 201, MaxIndLen}

IndCandles == {ShapeCandles(shape, len) : shape \in Shapes, len \in IndLens}

IndInit == pc = "indicators" /\ Constructed /\ candles \in IndCandles

(* SMCIndicators.analyze(candles) *)
Analyze ==
    /\ pc = "indicators"
    /\ lastCall' = [op |-> "analyze", result |-> analyze(candles)]
    /\ UNCHANGED <<pc, allTrades, model, trainCalls, lastPredict, prevTrainSet,
                   minScore, candles, evalIndex, extracted, scored>>
    /\ UNCHANGED loopVars
    /\ UNCHANGED extractVars

(* SMCIndicators.rsi(candles, 14) *)
Rsi ==
    /\ pc = "indicators"
    /\ lastCall' = [op |-> "rsi", result |-> Tabulate(rsi(candles, 14))]
    /\ UNCHANGED <<pc, allTrades, model, trainCalls, lastPredict, prevTrainSet,
                   minScore, candles, evalIndex, extracted, scored>>
    /\ UNCHANGED loopVars
    /\ UNCHANGED extractVars

(* SMCIndicators.atr(candles, 14) *)
Atr ==
    /\ pc = "indicators"
    /\ lastCall' = [op |-> "atr", result |-> Tabulate(atr(candles, 14))]
    /\ UNCHANGED <<pc, allTrades, model, trainCalls, lastPredict, prevTrainSet,
                   minScore, candles, evalIndex, extracted, scored>>
    /\ UNCHANGED loopVars
    /\ UNCHANGED extractVars

(* FeatureExtractor.checkMTFAlignment(trend_direction, direction,           *)
(* currentCandle, candles)                                                  *)
CheckMTFAlignment(direction) ==
    /\ pc = "indicators"
    /\ lastCall' = [op |-> "checkMTFAlignment", direction |-> direction,
                    result |-> checkMTFAlignment(direction, candles)]
    /\ UNCHANGED <<pc, allTrades, model, trainCalls, lastPredict, prevTrainSet,
                   minScore, candles, evalIndex, extracted, scored>>
    /\ UNCHANGED loopVars
    /\ UNCHANGED extractVars

IndNext ==
    \/ Analyze
    \/ Rsi
    \/ Atr
    \/ \E direction \in {"long", "short"} : CheckMTFAlignment(direction)

SpecIndicators == IndInit /\ [][IndNext]_vars

-----------------------------------------------------------------------------
(* Properties of the indicators *)

(* C18: analyze of fewer than 200 candles reports trend null, and of fewer   *)
(* than 50 candles break-of-structure null; it returns for every length.    *)
C18_ShortSequencesNull ==
    lastCall.op = "analyze"
        => /\ Len(candles) < 200 => lastCall.result.trend = "null"
           /\ Len(candles) < 50 => lastCall.result.bos = "null"

C18_Witness ==
    /\ lastCall.op = "analyze"
    /\ Len(candles) = 199
    /\ lastCall.result.trend = "null"
    /\ lastCall.result.bos = "up"

(* The close-to-close changes of the window of RSI value j (1-based): the    *)
(* 14 closes before candle 14 + j - 1                                       *)
WindowChanges(j) ==
    {candles[k + 1].close - candles[k].close : k \in j..(j + 12)}

(* C19: every value of rsi(candles, 14) is in [0, 100]; it is exactly 100    *)
(* when no change of its window is a loss and exactly 0 when every change   *)
(* is a loss.                                                               *)
C19_RsiRange ==
    lastCall.op = "rsi"
        => \A j \in DOMAIN lastCall.result :
              /\ RGe(lastCall.result[j], RInt(0))
              /\ RLe(lastCall.result[j], RInt(100))
              /\ (\A d \in WindowChanges(j) : d >= 0) => lastCall.result[j] = RInt(100)
              /\ (\A d \in WindowChanges(j) : d < 0) => lastCall.result[j] = RInt(0)

C19_Witness ==
    /\ lastCall.op = "rsi"
    /\ \E j \in DOMAIN lastCall.result :
          /\ \A d \in WindowChanges(j) : d > 0
          /\ lastCall.result[j] = RInt(100)
    /\ \E j \in DOMAIN lastCall.result :
          /\ \A d \in WindowChanges(j) : d < 0
          /\ lastCall.result[j] = RInt(0)
    /\ \E j \in DOMAIN lastCall.result :
          /\ RGt(lastCall.result[j], RInt(0))
          /\ RLt(lastCall.result[j], RInt(100))

(* C20: every order block of the analysis has as strength the body of its    *)
(* candle over the average body of the 10 candles before it, and that is at *)
(* least 1.5 (Infinity when those 10 candles have no body).                 *)
C20_OrderBlockStrength ==
    lastCall.op = "analyze"
        => \A b \in DOMAIN lastCall.result.orderBlocks :
              LET ob == lastCall.result.orderBlocks[b]
                  body == Abs(At(candles, ob.index).close - At(candles, ob.index).open)
                  sum == BodySum(candles, ob.index - 10, ob.index - 1)
              IN  /\ ob.strength = IF sum = 0 THEN Infinity ELSE Rat(10 * body, sum)
                  /\ ob.strength = Infinity \/ RGe(ob.strength, <<3, 2>>)

C20_Witness ==
    /\ lastCall.op = "analyze"
    /\ \E b \in DOMAIN lastCall.result.orderBlocks :
          /\ lastCall.result.orderBlocks[b].type = "bull"
          /\ lastCall.result.orderBlocks[b].strength # Infinity
          /\ RLt(lastCall.result.orderBlocks[b].strength, RInt(2))
    /\ \E b \in DOMAIN lastCall.result.orderBlocks :
          lastCall.result.orderBlocks[b].type = "bear"

-----------------------------------------------------------------------------
(* extractTradesForSymbol (backtest-learn-loop.ts, 273-318) for one job,    *)
(* after the command line has set CONFIG.minScore (526-528).  scored is the *)
(* history of the loop's `scoring`, one entry per evaluation point.         *)

Lookback == 200
TailCandles == 50

(* Mutation of SkipsPoint: a neutral bias is not skipped *)
SkipsPoint_ScoreOnly(scoring, threshold) == RLt(scoring.score, RInt(threshold))

(* Lines 302-303: the two `continue` *)
SkipsPoint(scoring, threshold) ==
    RLt(scoring.score, RInt(threshold)) \/ scoring.bias = "neutral"

(* Line 305 *)
Direction(bias) == IF bias = "bullish" THEN "long" ELSE "short"

(* Lines 307-312: the record of extractFeatures and addOutcome, with the    *)
(* fields of the entry and of the outcome                                   *)
TradeRecord(cs, i, direction, trade) ==
    [entry_price |-> At(cs, i).close, entry_time |-> At(cs, i).timestamp,
     direction |-> direction, outcome |-> trade.outcome, pnl |-> trade.pnl,
     exit_reason |-> trade.exit_reason]

(* Line 312: the call of simulateTrade for point i *)
TradeCall(cs, i, direction, analysisAtr) ==
    [op |-> "simulateTrade", startIndex |-> i, direction |-> direction,
     atr |-> analysisAtr,
     result |-> simulateTrade(cs, i, RInt(At(cs, i).close), direction, analysisAtr)]

(* Lines 298-299: the scoring of point i *)
PointAnalysis(cs, i) == analyze(SubSeq(cs, 1, i + 1))

PointScoring(cs, i, analysis) == calculateConfluence(analysis, At(cs, i).close, Weights)

(* Lines 295-314: one pass of the loop, given the analysis and the scoring  *)
(* of its point: the last call made and the records pushed                  *)
PassOf(cs, i, analysis, scoring, threshold) ==
    IF SkipsPoint(scoring, threshold)
    THEN [scoring |-> scoring,
          call |-> [op |-> "calculateConfluence", result |-> scoring],
          pushed |-> <<>>]
    ELSE [scoring |-> scoring,
          call |-> TradeCall(cs, i, Direction(scoring.bias), analysis.atr),
          pushed |-> <<TradeRecord(cs, i, Direction(scoring.bias),
                                   simulateTrade(cs, i, RInt(At(cs, i).close),
                                                 Direction(scoring.bias),
                                                 analysis.atr))>>]

PassScored(cs, i, analysis, threshold) ==
    PassOf(cs, i, analysis, PointScoring(cs, i, analysis), threshold)

Pass(cs, i, threshold) == PassScored(cs, i, PointAnalysis(cs, i), threshold)

(* The candle arrays loaded: one too short, and arrays of the shapes        *)
MaxExtractLen == 300
ExtractShapes == {"flat", "doji", "weak", "turn", "halted"}
ExtractCandles ==
    {ShapeCandles("flat", MinCandles - 1)}
        \cup {ShapeCandles(shape, MaxExtractLen) : shape \in ExtractShapes}

(* The thresholds of the command line: none given, and --min-score 80 *)
MinScoreArgs == {DefaultMinScore, 80}

ExtractInit == pc = "args" /\ Constructed /\ candles \in ExtractCandles

(* Lines 526-528 *)
ParseArgs ==
    /\ pc = "args"
    /\ \E threshold \in MinScoreArgs : minScore' = threshold
    /\ pc' = "extract"
    /\ UNCHANGED <<allTrades, model, trainCalls, lastPredict, prevTrainSet,
                   candles, evalIndex, extracted, lastCall, scored>>
    /\ UNCHANGED loopVars
    /\ UNCHANGED extractVars

(* Lines 274-282: too few candles throw *)
ExtractStart ==
    /\ pc = "extract"
    /\ pc' = IF Len(candles) < MinCandles THEN "insufficient" ELSE "extracting"
    /\ evalIndex' = Lookback
    /\ UNCHANGED <<allTrades, model, trainCalls, lastPredict, prevTrainSet,
                   minScore, candles, extracted, lastCall, scored>>
    /\ UNCHANGED loopVars
    /\ UNCHANGED extractVars

(* Lines 294-315: one pass of the loop *)
ExtractStep ==
    /\ pc = "extracting"
    /\ evalIndex < Len(candles) - TailCandles
    /\ scored' = Append(scored, [index |-> evalIndex,
                                 score |-> Pass(candles, evalIndex, minScore).scoring.score,
                                 bias |-> Pass(candles, evalIndex, minScore).scoring.bias])
    /\ lastCall' = Pass(candles, evalIndex, minScore).call
    /\ extracted' = extracted \o Pass(candles, evalIndex, minScore).pushed
    /\ evalIndex' = evalIndex + 1
    /\ UNCHANGED <<pc, allTrades, model, trainCalls, lastPredict, prevTrainSet,
                   minScore, candles>>
    /\ UNCHANGED loopVars
    /\ UNCHANGED extractVars

(* Line 317 *)
ExtractReturn ==
    /\ pc = "extracting"
    /\ ~(evalIndex < Len(candles) - TailCandles)
    /\ pc' = "returned"
    /\ UNCHANGED <<allTrades, model, trainCalls, lastPredict, prevTrainSet,
                   minScore, candles, evalIndex, extracted, lastCall, scored>>
    /\ UNCHANGED loopVars
    /\ UNCHANGED extractVars

ExtractNext == ParseArgs \/ ExtractStart \/ ExtractStep \/ ExtractReturn

SpecExtract == ExtractInit /\ [][ExtractNext]_vars

(* The evaluation points scored so far whose candle has the timestamp *)
PointsAt(timestamp) ==
    {p \in Range(scored) : At(candles, p.index).timestamp = timestamp}

Qualifies(p) == RGe(p.score, RInt(minScore)) /\ p.bias # "neutral"

(* C17: every record extracted comes from an evaluation point whose score is *)
(* at least minScore and whose bias is not neutral, long exactly when the   *)
(* bias is bullish and short exactly when it is bearish; a point that is    *)
(* neutral or below the threshold has no record.                            *)
C17_RecordsFromQualifyingPoints ==
    /\ \A r \in Range(extracted) :
          /\ PointsAt(r.entry_time) # {}
          /\ \A p \in PointsAt(r.entry_time) :
                /\ Qualifies(p)
                /\ r.direction = "long" <=> p.bias = "bullish"
                /\ r.direction = "short" <=> p.bias = "bearish"
    /\ \A p \in Range(scored) :
          ~Qualifies(p)
              => \A r \in Range(extracted) : r.entry_time # At(candles, p.index).timestamp

C17_Witness ==
    /\ pc = "returned"
    /\ \E r \in Range(extracted) : r.direction = "long"
    /\ \E r \in Range(extracted) : r.direction = "short"
    /\ \E p \in Range(scored) : p.bias # "neutral" /\ RLt(p.score, RInt(minScore))
    /\ Len(extracted) < Len(scored)

-----------------------------------------------------------------------------
(* UnifiedScoring called on analyses of every kind (backtest-learn-loop.ts, *)
(* 574-778)                                                                 *)

(* Mutation of MTFBonusSum: the third horizon only has to agree with the    *)
(* hourly one                                                               *)
MTFBonusSum_TripleLoose(dailyTrend, hourlyTrend, fiveMinTrend) ==
    (IF dailyTrend # "null" /\ hourlyTrend # "null"
     THEN IF dailyTrend = hourlyTrend THEN 20 ELSE -10
     ELSE 0)
    + (IF /\ dailyTrend # "null" /\ hourlyTrend # "null" /\ fiveMinTrend # "null"
          /\ hourlyTrend = fiveMinTrend
       THEN 15 ELSE 0)

(* Lines 753-773: bonus before the clamp.  The trend of an analysis that is *)
(* null is "null", as a trend that is null.                                 *)
MTFBonusSum(dailyTrend, hourlyTrend, fiveMinTrend) ==
    (IF dailyTrend # "null" /\ hourlyTrend # "null"
     THEN IF dailyTrend = hourlyTrend THEN 20 ELSE -10
     ELSE 0)
    + (IF /\ dailyTrend # "null" /\ hourlyTrend # "null" /\ fiveMinTrend # "null"
          /\ dailyTrend = hourlyTrend /\ hourlyTrend = fiveMinTrend
       THEN 15 ELSE 0)

(* hourly && hourly.trend: the trend read from an analysis that may be null *)
NullAnalysis == [null |-> TRUE]
TrendOf(analysis) == IF analysis = NullAnalysis THEN "null" ELSE analysis.trend

(* calculateMTFBonus(daily, hourly, fiveMin): Math.max(-15, bonus) *)
calculateMTFBonus(daily, hourly, fiveMin) ==
    IF MTFBonusSum(daily.trend, TrendOf(hourly), TrendOf(fiveMin)) < -15 THEN -15
    ELSE MTFBonusSum(daily.trend, TrendOf(hourly), TrendOf(fiveMin))

Trends == {"up", "down", "null"}

(* The analyses scored: every trend and break of structure, with and without *)
(* averages, RSI, an order block below the price and liquidity zones        *)
ScoreEmas == {<<0, 0>>, <<101 * EmaScale, 100 * EmaScale>>, <<100 * EmaScale, 101 * EmaScale>>}
ScoreRsis == {Null, RInt(20), RInt(50), RInt(80)}
ScoreOrderBlocks ==
    {<<>>, <<[index |-> 10, timestamp |-> 10, open |-> 100, high |-> 101, low |-> 95,
              close |-> 96, type |-> "bull", strength |-> RInt(2)]>>}
ScoreZones == {[highs |-> {}, lows |-> {}], [highs |-> {7}, lows |-> {}]}

ScoreAnalyses ==
    {[trend |-> trend, bos |-> bos, ema50 |-> emas[1], ema200 |-> emas[2],
      rsi |-> rsiValue, orderBlocks |-> obs, fvg |-> <<>>, liquidityZones |-> zones,
      atr |-> Null] :
        trend \in Trends, bos \in Trends, emas \in ScoreEmas, rsiValue \in ScoreRsis,
        obs \in ScoreOrderBlocks, zones \in ScoreZones}

(* The analyses of the other horizons: null, or an analysis with a trend *)
HorizonAnalyses == {NullAnalysis} \cup [trend : Trends]

ScoreInit == pc = "scoring" /\ Constructed /\ candles = <<>>

(* UnifiedScoring.calculateConfluence(analysis, currentPrice, weights) *)
CalculateConfluence(analysis, currentPrice) ==
    /\ pc = "scoring"
    /\ lastCall' = [op |-> "calculateConfluence", analysis |-> analysis,
                    currentPrice |-> currentPrice,
                    result |-> calculateConfluence(analysis, currentPrice, Weights)]
    /\ UNCHANGED <<pc, allTrades, model, trainCalls, lastPredict, prevTrainSet,
                   minScore, candles, evalIndex, extracted, scored>>
    /\ UNCHANGED loopVars
    /\ UNCHANGED extractVars

(* UnifiedScoring.calculateMTFBonus(daily, hourly, fiveMin) *)
CalculateMTFBonus(daily, hourly, fiveMin) ==
    /\ pc = "scoring"
    /\ lastCall' = [op |-> "calculateMTFBonus", daily |-> daily, hourly |-> hourly,
                    fiveMin |-> fiveMin,
                    result |-> calculateMTFBonus(daily, hourly, fiveMin)]
    /\ UNCHANGED <<pc, allTrades, model, trainCalls, lastPredict, prevTrainSet,
                   minScore, candles, evalIndex, extracted, scored>>
    /\ UNCHANGED loopVars
    /\ UNCHANGED extractVars

ScoreNext ==
    \/ \E analysis \in ScoreAnalyses : CalculateConfluence(analysis, 100)
    \/ \E daily \in [trend : Trends], hourly \in HorizonAnalyses,
          fiveMin \in HorizonAnalyses : CalculateMTFBonus(daily, hourly, fiveMin)

SpecScoring == ScoreInit /\ [][ScoreNext]_vars

(* C21: the bias of the scorer for every trend and break of structure: both  *)
(* up bullish, both down bearish, otherwise bullish if any of the two is    *)
(* up, else bearish if any is down; neutral exactly when both are null.     *)
C21_BiasResolution ==
    (lastCall.op = "calculateConfluence" /\ "analysis" \in DOMAIN lastCall)
        => /\ (lastCall.analysis.trend = "up" \/ lastCall.analysis.bos = "up")
                 => lastCall.result.bias = (IF /\ lastCall.analysis.trend = "down"
                                               /\ lastCall.analysis.bos = "down"
                                            THEN "bearish" ELSE "bullish")
           /\ (/\ lastCall.analysis.trend # "up" /\ lastCall.analysis.bos # "up"
               /\ (lastCall.analysis.trend = "down" \/ lastCall.analysis.bos = "down"))
                 => lastCall.result.bias = "bearish"
           /\ lastCall.result.bias = "neutral"
                 <=> (lastCall.analysis.trend = "null" /\ lastCall.analysis.bos = "null")

C21_Witness ==
    /\ lastCall.op = "calculateConfluence" /\ "analysis" \in DOMAIN lastCall
    /\ lastCall.analysis.trend = "down"
    /\ lastCall.analysis.bos = "up"
    /\ lastCall.result.bias = "bullish"

(* C22: the bonus is 20 when the daily and hourly trends are known and       *)
(* agree, -10 when they are known and disagree, 15 more when the three      *)
(* trends are known and agree; it is at least -15 and one of -10, 0, 20, 35. *)
C22_MTFBonus ==
    lastCall.op = "calculateMTFBonus"
        => /\ lastCall.result >= -15
           /\ lastCall.result \in {-10, 0, 20, 35}
           /\ lastCall.result =
                 (IF lastCall.daily.trend = "null" \/ TrendOf(lastCall.hourly) = "null"
                  THEN 0
                  ELSE IF lastCall.daily.trend # TrendOf(lastCall.hourly) THEN -10
                  ELSE IF TrendOf(lastCall.fiveMin) = lastCall.daily.trend THEN 35
                  ELSE 20)

C22_Witness ==
    /\ lastCall.op = "calculateMTFBonus"
    /\ lastCall.daily.trend = "up"
    /\ TrendOf(lastCall.hourly) = "up"
    /\ TrendOf(lastCall.fiveMin) = "up"
    /\ lastCall.result = 35

-----------------------------------------------------------------------------
(* More properties of the indicators and of the features *)

(* The true range of candle k (0-based, k > 0) measured from the close of   *)
(* the candle before                                                        *)
RangeFromPrevClose(k) ==
    SetMax({At(candles, k).high - At(candles, k).low,
            Abs(At(candles, k).high - At(candles, k - 1).close),
            Abs(At(candles, k).low - At(candles, k - 1).close)})

RangesFromPrevClose ==
    Tabulate([p \in 1..Len(candles) |-> IF p = 1 THEN 0 ELSE RangeFromPrevClose(p - 1)])

(* C23: every value of atr(candles, 14) whose 14 candles all have a candle   *)
(* before them is the mean of their true ranges, the true range being the   *)
(* largest of high - low, |high - previous close| and |low - previous       *)
(* close|.                                                                  *)
C23_AtrFromPrevClose ==
    lastCall.op = "atr"
        => \A j \in DOMAIN lastCall.result :
              j >= 2 => lastCall.result[j]
                            = Rat(SumRange(RangesFromPrevClose, j - 1, j + 12), 14)

(* The trend of a horizon: neutral with fewer candles than the window or a   *)
(* change of the close within 0.5%, over the last `window` candles          *)
HorizonChange(window) ==
    Rat((candles[Len(candles)].close - candles[Len(candles) - window + 1].close) * 100,
        candles[Len(candles) - window + 1].close)

HorizonAgrees(window, direction) ==
    \/ Len(candles) < window
    \/ RGe(HorizonChange(window), <<-1, 2>>) /\ RLe(HorizonChange(window), <<1, 2>>)
    \/ direction = "long" /\ RGt(HorizonChange(window), <<1, 2>>)
    \/ direction = "short" /\ RLt(HorizonChange(window), <<-1, 2>>)

(* C24: mtf_aligned is true with fewer than 50 candles; otherwise it is true *)
(* exactly when at least 2 of the horizons 20, 50 and 100 are neutral or    *)
(* have the trend of the trade's direction.                                 *)
C24_MTFAligned ==
    lastCall.op = "checkMTFAlignment"
        => /\ Len(candles) < 50 => lastCall.result = TRUE
           /\ Len(candles) >= 50
                 => (lastCall.result = TRUE
                        <=> Cardinality({window \in {20, 50, 100} :
                                HorizonAgrees(window, lastCall.direction)}) >= 2)

C24_Witness ==
    /\ lastCall.op = "checkMTFAlignment"
    /\ Len(candles) >= 100
    /\ lastCall.result = TRUE
    /\ Cardinality({window \in {20, 50, 100} :
                       HorizonAgrees(window, lastCall.direction)}) = 2

(* C30: analyze of fewer candles than the period of an EMA (50, 200)         *)
(* reports that EMA as null (0 here).                                       *)
C30_ShortEmaNull ==
    lastCall.op = "analyze"
        => /\ Len(candles) < 50 => lastCall.result.ema50 = 0
           /\ Len(candles) < 200 => lastCall.result.ema200 = 0

-----------------------------------------------------------------------------
(* More properties of the learning loop *)

InIteration == pc \in {"train", "test", "evaltrain", "record", "emphasize"}
Evaluated == pc \in {"evaltrain", "record", "emphasize"}

(* The records of ids that the predictions of the table (one per distinct   *)
(* input of predict) misclassify: predicted win, probability at least 0.5,  *)
(* differing from outcome WIN                                               *)
PredictionsFor(ids) ==
    Tabulate([o \in {PredictInput(Obj(id)) : id \in ids} |-> predict(model, o)])

MisclassifiedBy(table, ids) ==
    {id \in ids : RGe(table[PredictInput(Obj(id))].winProbability, <<1, 2>>)
                     # (Obj(id).outcome = "WIN")}

C27_CorpusUnchanged ==
    /\ [][(pc \in {"loop", "train", "test", "evaltrain", "record", "emphasize",
                   "save"})
             => allTrades' = allTrades]_vars
    /\ [](pc \in {"loop", "train", "test", "evaltrain", "record", "emphasize",
                  "save", "done"}
             => /\ Cardinality(Range(allTrades)) = Len(allTrades)
                /\ Len(trainingData) >= Len(allTrades)
                /\ SubSeq(trainingData, 1, Len(allTrades)) = allTrades)

C27_Witness ==
    /\ pc = "done"
    /\ Len(iterations) >= 2
    /\ Len(trainingData) > Len(allTrades)
    /\ Cardinality(Range(trainingData)) < Len(trainingData)

(* C28: in an iteration, no record is in both the train and the test split *)
C28_SplitsDisjoint ==
    InIteration => Range(trainSet) \cap Range(testSet) = {}

-----------------------------------------------------------------------------
(* More properties of the model *)

(* The win rate and count predict uses for a feature of the model, lines    *)
(* 196-209                                                                  *)
UsedBin(modelFeature, features) ==
    FindBin(modelFeature.bins, features[modelFeature.name],
            modelFeature.name \in NumberFields)

(* The bins of the feature whose stored value is the record's value *)
BinsOfValue(modelFeature, features) ==
    {b \in DOMAIN modelFeature.bins :
        /\ modelFeature.bins[b].hasValue
        /\ modelFeature.bins[b].count > 0
        /\ modelFeature.bins[b].value = features[modelFeature.name]}

(* predict uses, for the feature, the bin whose stored value is the record's *)
MatchesByValue(modelFeature, features) ==
    \A b \in BinsOfValue(modelFeature, features) :
        UsedBin(modelFeature, features)
            = [winRate |-> modelFeature.bins[b].winRate,
               count |-> modelFeature.bins[b].count]

(* C26: for every categorical feature of a trained model, days_since_loss    *)
(* included, a predict call uses the win rate and the count of the bin      *)
(* whose stored value equals the query record's value of the feature.       *)
C26_CategoricalByValue ==
    (lastPredict.called /\ model.trained)
        => \A k \in DOMAIN model.features :
               model.features[k].name \in Range(CategoricalFeatures)
                   => MatchesByValue(model.features[k], Obj(lastPredict.input))

(* The same for the categorical features whose values are not numbers *)
C26_TextFeaturesByValue ==
    (lastPredict.called /\ model.trained)
        => \A k \in DOMAIN model.features :
               model.features[k].name \in Range(CategoricalFeatures) \ NumberFields
                   => MatchesByValue(model.features[k], Obj(lastPredict.input))

-----------------------------------------------------------------------------
(* More properties of the simulation *)

(* C29: the simulation reports exit_reason "TP" only when a scanned candle   *)
(* touched the target, and the outcome is then WIN; a trade whose scan ran  *)
(* out with no touch is not reported as "TP".                               *)
C29_TPOnlyOnTarget ==
    (Simulated /\ lastCall.result.exit_reason = "TP")
        => /\ \E i \in Scanned : TouchesTarget(i)
           /\ lastCall.result.outcome = "WIN"
====
